---------------------------- MODULE Spec2Model ----------------------------
(***************************************************************************)
(* A model of the recursive summarization engine of RSS-PRSS (prrs.ts):    *)
(* the Chunker (splitTextBySize, splitFileIntoChunks), the Ranker          *)
(* (rankChunksByImportance), the Summarizer (summarizeChunks, callLLM) and *)
(* the Traversal Engine (rrs).                                             *)
(*                                                                         *)
(* Text is a sequence of one-character strings, so that length, slicing,   *)
(* trimming, splitting and searching are computed as the code computes     *)
(* them.                                                                   *)
(***************************************************************************)
EXTENDS Integers, Sequences, FiniteSets, TLC

(***************************************************************************)
(* JavaScript string primitives used by the code.                          *)
(***************************************************************************)
NL == "\n"

WhiteSpace == {" ", "\n", "\t", "\r"}

MaxOf(S) == CHOOSE x \in S : \A y \in S : y <= x

MinOf(S) == CHOOSE x \in S : \A y \in S : x <= y

Min2(a, b) == IF a <= b THEN a ELSE b

Max2(a, b) == IF a >= b THEN a ELSE b

\* Math.ceil(a / b) for a >= 0, b >= 1
CeilDiv(a, b) == (a + b - 1) \div b

IsBlank(s) == \A i \in 1..Len(s) : s[i] \in WhiteSpace

\* String.prototype.trim
Trim(s) ==
  IF IsBlank(s) THEN <<>>
  ELSE LET a == MinOf({i \in 1..Len(s) : s[i] \notin WhiteSpace})
           b == MaxOf({i \in 1..Len(s) : s[i] \notin WhiteSpace})
       IN  SubSeq(s, a, b)

\* s.slice(a, b) for 0 <= a, 0 <= b (0-based, end exclusive, clamped to the length)
Slice(s, a, b) == SubSeq(s, a + 1, Min2(b, Len(s)))

\* s.slice(a)
SliceFrom(s, a) == SubSeq(s, a + 1, Len(s))

\* s.lastIndexOf(cand), 0-based, -1 when absent (cand non-empty)
LastIndexOf(s, cand) ==
  LET P == {i \in 0..(Len(s) - Len(cand)) : SubSeq(s, i + 1, i + Len(cand)) = cand}
  IN  IF P = {} THEN -1 ELSE MaxOf(P)

\* s.startsWith(p)
StartsWith(s, p) == Len(s) >= Len(p) /\ SubSeq(s, 1, Len(p)) = p

\* s.split('\n')
RECURSIVE SplitLines(_)
SplitLines(s) ==
  IF \A i \in 1..Len(s) : s[i] # NL THEN <<s>>
  ELSE LET k == MinOf({i \in 1..Len(s) : s[i] = NL})
       IN  <<SubSeq(s, 1, k - 1)>> \o SplitLines(SubSeq(s, k + 1, Len(s)))

\* parts.join(sep)
RECURSIVE Join(_, _)
Join(parts, sep) ==
  IF parts = <<>> THEN <<>>
  ELSE IF Len(parts) = 1 THEN parts[1]
  ELSE parts[1] \o sep \o Join(Tail(parts), sep)

\* a variant of TrimAndFilter that filters without trimming: list.filter(Boolean)
FilterOnly(list) == SelectSeq(list, LAMBDA c : c # <<>>)

\* list.map(s => s.trim()).filter(Boolean)
RECURSIVE TrimAndFilter(_)
TrimAndFilter(list) ==
  IF list = <<>> THEN <<>>
  ELSE LET t == Trim(list[1])
       IN  (IF t = <<>> THEN <<>> ELSE <<t>>) \o TrimAndFilter(Tail(list))

(***************************************************************************)
(* splitTextBySize: the size-bounded text splitter.                        *)
(***************************************************************************)
\* the boundary candidates, in the order the code tries them
SplitCandidates ==
  << <<NL, NL>>, <<";", NL>>, <<"}", ";", NL>>, <<NL, "/", "/">>, <<NL>> >>

\* a split point is used only beyond this offset of the buffered prefix
MinSplitOffset == 10

\* the loop over splitCandidates, from candidate k on
RECURSIVE FindSplitPos(_, _, _)
FindSplitPos(cur, k, splitPos) ==
  IF k > Len(SplitCandidates) THEN splitPos
  ELSE LET cand == SplitCandidates[k]
           idx  == LastIndexOf(cur, cand)
       IN  FindSplitPos(cur, k + 1,
             IF idx > splitPos
               THEN idx + (IF cand[1] = NL THEN 1 ELSE 0)
               ELSE splitPos)

\* pushCur: push the trimmed buffer when it is not empty, and empty it
PushCur(st) ==
  IF st.cur # <<>>
    THEN [chunks |-> Append(st.chunks, Trim(st.cur)), cur |-> <<>>]
    ELSE st

\* while (cur.length > maxChars) { push cur.slice(0, maxChars).trim(); cur = cur.slice(maxChars) }
RECURSIVE BruteChop(_, _)
BruteChop(st, maxChars) ==
  IF Len(st.cur) > maxChars
    THEN BruteChop([chunks |-> Append(st.chunks, Trim(Slice(st.cur, 0, maxChars))),
                    cur    |-> SliceFrom(st.cur, maxChars)], maxChars)
    ELSE st

\* while (start < line.length) { push line.slice(start, start + maxChars); start += maxChars }
RECURSIVE HardSplit(_, _, _, _)
HardSplit(chunks, line, start, maxChars) ==
  IF start < Len(line)
    THEN HardSplit(Append(chunks, Slice(line, start, start + maxChars)),
                   line, start + maxChars, maxChars)
    ELSE chunks

\* one iteration of the loop over the lines
SplitStep(st, line, maxChars) ==
  IF Len(st.cur) + 1 + Len(line) > maxChars
    THEN LET splitPos == FindSplitPos(st.cur, 1, -1)
         IN  IF splitPos > MinSplitOffset
               THEN LET head == Trim(Slice(st.cur, 0, splitPos))
                        tail == Trim(SliceFrom(st.cur, splitPos))
                    IN  BruteChop(
                          [chunks |-> IF head # <<>> THEN Append(st.chunks, head)
                                                     ELSE st.chunks,
                           cur    |-> tail \o <<NL>> \o line], maxChars)
               ELSE LET p == PushCur(st)
                    IN  IF Len(line) > maxChars
                          THEN [chunks |-> HardSplit(p.chunks, line, 0, maxChars),
                                cur    |-> p.cur]
                          ELSE [chunks |-> p.chunks, cur |-> line]
    ELSE [chunks |-> st.chunks,
          cur    |-> IF st.cur # <<>> THEN st.cur \o <<NL>> \o line ELSE line]

RECURSIVE SplitLoop(_, _, _, _)
SplitLoop(lines, k, st, maxChars) ==
  IF k > Len(lines) THEN st
  ELSE SplitLoop(lines, k + 1, SplitStep(st, lines[k], maxChars), maxChars)

splitTextBySize(text, maxChars) ==
  IF text = <<>> THEN <<>>
  ELSE IF Len(text) <= maxChars THEN <<Trim(text)>>
  ELSE LET st == SplitLoop(SplitLines(text), 1, [chunks |-> <<>>, cur |-> <<>>], maxChars)
       IN  TrimAndFilter(PushCur(st).chunks)

(***************************************************************************)
(* splitFileIntoChunks.  The TypeScript parser (ts.createSourceFile) is an *)
(* external library: its outcome is an input of the model, either a throw  *)
(* or the top-level nodes of the source file.  The nodes tile the text:    *)
(* each node's full start is the end of the previous node, and the last    *)
(* node (the end-of-file token) ends at the end of the text.               *)
(***************************************************************************)
Throws == [ok |-> FALSE, nodes |-> <<>>]

\* the elements of a set of integers in increasing order
RECURSIVE SortedSeq(_)
SortedSeq(S) == IF S = {} THEN <<>> ELSE <<MinOf(S)>> \o SortedSeq(S \ {MinOf(S)})

\* the top-level nodes [pos, end) whose ends are the given cut positions and the end
\* of the text
NodesOfCuts(cutSet, len) ==
  LET cuts == SortedSeq(cutSet)
  IN  [k \in 1..(Len(cuts) + 1) |->
         [pos |-> IF k = 1 THEN 0 ELSE cuts[k - 1],
          end |-> IF k = Len(cuts) + 1 THEN len ELSE cuts[k]]]

\* where a top-level node can end: after a ';' or a '}', or at the end of a line's text
CutPoints(text) ==
  {p \in 1..Len(text) :
     /\ text[p] \notin WhiteSpace
     /\ \/ text[p] \in {";", "}"}
        \/ p = Len(text)
        \/ text[p + 1] = NL}

\* what ts.createSourceFile and forEachChild can give for a text
ParseOutcomes(text) ==
  {Throws} \cup {[ok |-> TRUE, nodes |-> NodesOfCuts(c, Len(text))] : c \in SUBSET CutPoints(text)}

\* sourceFile.forEachChild(...): the candidate chunks of the nodes from node k on
RECURSIVE CollectDecls(_, _, _, _)
CollectDecls(fileContent, nodes, k, maxChunkChars) ==
  IF k > Len(nodes) THEN <<>>
  ELSE LET node == nodes[k]
           txt  == IF node.end > node.pos
                     THEN Trim(Slice(fileContent, node.pos, node.end))
                     ELSE <<>>
           here == IF txt = <<>> THEN <<>>
                   ELSE IF Len(txt) > maxChunkChars
                     THEN splitTextBySize(txt, maxChunkChars)
                     ELSE <<txt>>
       IN  here \o CollectDecls(fileContent, nodes, k + 1, maxChunkChars)

\* a variant of PerBucket that rounds down: Math.floor(count / maxChunks)
PerBucketFloor(count, maxChunks) == count \div maxChunks

\* Math.ceil(count / maxChunks)
PerBucket(count, maxChunks) == CeilDiv(count, maxChunks)

\* for (i = 0; i < list.length; i += perBucket) push(list.slice(i, i + perBucket).join('\n\n'))
RECURSIVE GroupFrom(_, _, _)
GroupFrom(list, i, perBucket) ==
  IF i < Len(list)
    THEN <<Join(Slice(list, i, i + perBucket), <<NL, NL>>)>>
           \o GroupFrom(list, i + perBucket, perBucket)
    ELSE <<>>

\* the end of the try block: return the candidates, grouped when there are too many
StructuralResult(declTexts, maxChunks) ==
  IF Len(declTexts) <= maxChunks
    THEN TrimAndFilter(declTexts)
    ELSE TrimAndFilter(
           TrimAndFilter(GroupFrom(declTexts, 0, PerBucket(Len(declTexts), maxChunks))))

Letters ==
  {"a","b","c","d","e","f","g","h","i","j","k","l","m","n","o","p","q","r","s","t",
   "u","v","w","x","y","z"}

Capitals ==
  {"A","B","C","D","E","F","G","H","I","J","K","L","M","N","O","P","Q","R","S","T",
   "U","V","W","X","Y","Z"}

Digits == {"0","1","2","3","4","5","6","7","8","9"}

\* \w
WordChars == Letters \cup Capitals \cup Digits \cup {"_"}

LowerOf ==
  [c \in Capitals |->
     CASE c = "A" -> "a" [] c = "B" -> "b" [] c = "C" -> "c" [] c = "D" -> "d"
       [] c = "E" -> "e" [] c = "F" -> "f" [] c = "G" -> "g" [] c = "H" -> "h"
       [] c = "I" -> "i" [] c = "J" -> "j" [] c = "K" -> "k" [] c = "L" -> "l"
       [] c = "M" -> "m" [] c = "N" -> "n" [] c = "O" -> "o" [] c = "P" -> "p"
       [] c = "Q" -> "q" [] c = "R" -> "r" [] c = "S" -> "s" [] c = "T" -> "t"
       [] c = "U" -> "u" [] c = "V" -> "v" [] c = "W" -> "w" [] c = "X" -> "x"
       [] c = "Y" -> "y" [] c = "Z" -> "z"]

\* the /i flag: compare in lower case
Lower(s) == [i \in 1..Len(s) |-> IF s[i] \in Capitals THEN LowerOf[s[i]] ELSE s[i]]

DeclKeywords ==
  { <<"d","e","f">>, <<"c","l","a","s","s">>, <<"f","u","n","c","t","i","o","n">>,
    <<"c","o","n","s","t">>, <<"l","e","t">>, <<"v","a","r">>,
    <<"i","m","p","o","r","t">>, <<"e","x","p","o","r","t">> }

CommentMarkers == { <<"t","o","d","o">>, <<"n","o","t","e">>, <<"f","i","x","m","e">> }

\* the text after the leading white space of s
SkipSpace(s) ==
  IF IsBlank(s) THEN <<>>
  ELSE SliceFrom(s, MinOf({i \in 1..Len(s) : s[i] \notin WhiteSpace}) - 1)

\* /^(def|class|function|const|let|var|import|export)\s+\w+|^\s*\/\/\s*(TODO|NOTE|FIXME)/i
IsDeclStart(line) ==
  \/ \E kw \in DeclKeywords :
       /\ StartsWith(Lower(line), kw)
       /\ LET rest == SliceFrom(line, Len(kw))
          IN  /\ rest # <<>>
              /\ rest[1] \in WhiteSpace
              /\ SkipSpace(rest) # <<>>
              /\ SkipSpace(rest)[1] \in WordChars
  \/ LET body == SkipSpace(line)
     IN  /\ StartsWith(body, <<"/", "/">>)
         /\ \E m \in CommentMarkers : StartsWith(Lower(SkipSpace(SliceFrom(body, 2))), m)

\* flushCurrent of the fallback
FlushCurrent(st, maxChunkChars) ==
  IF st.currentChunk # <<>>
    THEN LET txt == Join(st.currentChunk, <<NL>>)
         IN  [chunks       |-> st.chunks \o (IF Len(txt) > maxChunkChars
                                               THEN splitTextBySize(txt, maxChunkChars)
                                               ELSE <<txt>>),
              currentChunk |-> <<>>,
              chunkCount   |-> st.chunkCount + 1]
    ELSE st

\* one iteration of the fallback's loop over the lines
FallbackStep(st, line, maxChunks, maxChunkChars) ==
  IF st.chunkCount >= maxChunks
    THEN [st EXCEPT !.currentChunk = Append(@, line)]
    ELSE LET s1 == IF IsDeclStart(line)
                     THEN [FlushCurrent(st, maxChunkChars) EXCEPT !.currentChunk = <<line>>]
                     ELSE [st EXCEPT !.currentChunk = Append(@, line)]
             curText == Join(s1.currentChunk, <<NL>>)
         IN  IF Len(curText) > maxChunkChars
               THEN LET parts == splitTextBySize(curText, maxChunkChars)
                        kept  == s1.chunks \o SubSeq(parts, 1, Len(parts) - 1)
                    IN  [chunks       |-> kept,
                         \* parts[parts.length - 1] is undefined for no parts, and joins as ''
                         currentChunk |-> << IF parts = <<>> THEN <<>>
                                                             ELSE parts[Len(parts)] >>,
                         chunkCount   |-> Len(kept)]
               ELSE s1

RECURSIVE FallbackLoop(_, _, _, _, _)
FallbackLoop(lines, k, st, maxChunks, maxChunkChars) ==
  IF k > Len(lines) THEN st
  ELSE FallbackLoop(lines, k + 1, FallbackStep(st, lines[k], maxChunks, maxChunkChars),
                    maxChunks, maxChunkChars)

\* the candidate chunks of the fallback, after its last flush
FallbackChunks(fileContent, maxChunks, maxChunkChars) ==
  LET st == FallbackLoop(SplitLines(fileContent), 1,
                         [chunks |-> <<>>, currentChunk |-> <<>>, chunkCount |-> 0],
                         maxChunks, maxChunkChars)
  IN  IF st.currentChunk # <<>> /\ st.chunkCount < maxChunks
        THEN FlushCurrent(st, maxChunkChars).chunks
        ELSE st.chunks

\* the end of the catch block
FallbackResult(chunks, maxChunks) ==
  IF Len(chunks) <= maxChunks
    THEN TrimAndFilter(chunks)
    ELSE TrimAndFilter(GroupFrom(chunks, 0, PerBucket(Len(chunks), maxChunks)))

\* splitFileIntoChunks, for the parser outcome `parsed` (Throws, or the top-level nodes)
splitFileIntoChunks(fileContent, maxChunks, maxChunkChars, parsed) ==
  LET declTexts == IF ~parsed.ok THEN <<>>
                   ELSE CollectDecls(fileContent, parsed.nodes, 1, maxChunkChars)
  IN  IF declTexts # <<>>
        THEN StructuralResult(declTexts, maxChunks)
        ELSE FallbackResult(FallbackChunks(fileContent, maxChunks, maxChunkChars), maxChunks)

(***************************************************************************)
(* JavaScript values, as JSON.parse and the code's conversions give them.  *)
(* A number is held as twice its value (field h), so that a fraction of    *)
(* one half is a value of the model: 0.5 is h = 1, 7 is h = 14.            *)
(***************************************************************************)
JsUndefined == [ty |-> "undefined", h |-> 0, s |-> <<>>]

JsNull == [ty |-> "null", h |-> 0, s |-> <<>>]

JsNaN == [ty |-> "nan", h |-> 0, s |-> <<>>]

JsNum(h) == [ty |-> "number", h |-> h, s |-> <<>>]

JsInt(i) == JsNum(2 * i)

JsStr(s) == [ty |-> "string", h |-> 0, s |-> s]

\* typeof v
TypeOf(v) ==
  CASE v.ty = "nan" -> "number"
    [] v.ty = "null" -> "object"
    [] OTHER -> v.ty

\* the value of a string of decimal digits
RECURSIVE DigitsValue(_, _)
DigitsValue(s, acc) ==
  IF s = <<>> THEN acc
  ELSE DigitsValue(Tail(s),
         10 * acc + (CHOOSE d \in 0..9 : ToString(d) = s[1]))

\* Number(v): a blank string is 0, a string of digits is its value, any other
\* string is NaN (signs, fractions and exponents in strings are not modelled)
ToNumber(v) ==
  CASE v.ty = "number" -> v
    [] v.ty = "nan" -> JsNaN
    [] v.ty = "undefined" -> JsNaN
    [] v.ty = "null" -> JsInt(0)
    [] v.ty = "string" ->
         IF Trim(v.s) = <<>> THEN JsInt(0)
         ELSE IF \A i \in 1..Len(Trim(v.s)) : Trim(v.s)[i] \in Digits
           THEN JsInt(DigitsValue(Trim(v.s), 0))
           ELSE JsNaN

\* whether v is truthy (v || default)
Truthy(v) ==
  CASE v.ty = "number" -> v.h # 0
    [] v.ty = "string" -> v.s # <<>>
    [] v.ty = "function" -> TRUE
    [] OTHER -> FALSE

\* Math.min(a, b) and Math.max(a, b) of numbers, NaN when either is NaN
MathMin(a, b) == IF a.ty = "nan" \/ b.ty = "nan" THEN JsNaN ELSE JsNum(Min2(a.h, b.h))

MathMax(a, b) == IF a.ty = "nan" \/ b.ty = "nan" THEN JsNaN ELSE JsNum(Max2(a.h, b.h))

\* chunks[idx]: undefined unless idx is an integer within the array
ChunkAt(chunks, idx) ==
  IF idx.ty = "number" /\ idx.h % 2 = 0 /\ idx.h >= 0 /\ idx.h \div 2 < Len(chunks)
    THEN JsStr(chunks[(idx.h \div 2) + 1])
    ELSE JsUndefined

(***************************************************************************)
(* The text of a model reply.  A reply is a text whose JSON object         *)
(* literals (and the literal null) are single symbols, each the printed    *)
(* form of the value it parses to; every other symbol is a character.      *)
(***************************************************************************)
\* the string of a text
RECURSIVE StrOf(_)
StrOf(s) == IF s = <<>> THEN "" ELSE s[1] \o StrOf(Tail(s))

\* the JSON numeral of a number
NumLex(h) ==
  IF h % 2 = 0 THEN ToString(h \div 2) ELSE ToString((h - 1) \div 2) \o ".5"

\* the JSON literal of a value
ValLex(v) ==
  CASE v.ty = "number" -> NumLex(v.h)
    [] v.ty = "string" -> "\"" \o StrOf(v.s) \o "\""
    [] OTHER -> "null"

\* the members of an object literal; an undefined field is absent
FieldLex(name, v) ==
  IF v.ty = "undefined" THEN <<>> ELSE << "\"" \o name \o "\":" \o ValLex(v) >>

\* strings joined by commas
RECURSIVE CommaList(_)
CommaList(parts) ==
  IF parts = <<>> THEN ""
  ELSE IF Len(parts) = 1 THEN parts[1]
  ELSE parts[1] \o "," \o CommaList(Tail(parts))

\* a reply element: the value null, or an object with these fields
JsonNull ==
  [isNull |-> TRUE, index |-> JsUndefined, score |-> JsUndefined,
   reason |-> JsUndefined, chunk |-> JsUndefined]

JsonObj(index, score, reason, chunk) ==
  [isNull |-> FALSE, index |-> index, score |-> score, reason |-> reason, chunk |-> chunk]

\* the literal of a reply element
ElemLex(e) ==
  IF e.isNull THEN "null"
  ELSE "{" \o CommaList(FieldLex("index", e.index) \o FieldLex("score", e.score)
                          \o FieldLex("reason", e.reason) \o FieldLex("chunk", e.chunk))
           \o "}"

\* the reply elements of the model: every kind of index with a good score, missing
\* and zero scores, a missing and an empty reason, an echoed chunk text, and null
IndexValues ==
  {JsUndefined, JsNull, JsInt(-1), JsInt(0), JsNum(1), JsInt(1), JsInt(7),
   JsStr(<<"1">>), JsStr(<<"x">>)}

ReplyElems ==
  {JsonObj(i, JsInt(7), JsStr(<<"r">>), JsUndefined) : i \in IndexValues}
    \cup {JsonObj(i, sc, JsStr(<<"r">>), JsUndefined) :
            i \in {JsInt(0), JsUndefined}, sc \in {JsUndefined, JsInt(0)}}
    \cup {JsonObj(JsInt(0), JsInt(7), r, JsUndefined) : r \in {JsUndefined, JsStr(<<>>)}}
    \cup {JsonObj(JsInt(0), JsInt(7), JsStr(<<"r">>), JsStr(<<"p">>))}
    \cup {JsonNull}

ElemLexemes == {ElemLex(e) : e \in ReplyElems}

\* the value of an element literal
ElemOfLex(lex) == CHOOSE e \in ReplyElems : ElemLex(e) = lex

\* JSON.parse(text): fails (ok = FALSE) unless the text is one element literal or
\* an array of element literals separated by commas, white space apart
JSONParse(text) ==
  LET toks  == SelectSeq(text, LAMBDA c : c \notin WhiteSpace)
      inner == SubSeq(toks, 2, Len(toks) - 1)
  IN  IF Len(toks) = 1 /\ toks[1] \in ElemLexemes
        THEN [ok |-> TRUE, isArray |-> FALSE, elems |-> <<ElemOfLex(toks[1])>>]
      ELSE IF /\ Len(toks) >= 2
              /\ toks[1] = "["
              /\ toks[Len(toks)] = "]"
              /\ \/ inner = <<>>
                 \/ /\ Len(inner) % 2 = 1
                    /\ \A i \in 1..Len(inner) :
                         IF i % 2 = 1 THEN inner[i] \in ElemLexemes ELSE inner[i] = ","
        THEN [ok |-> TRUE, isArray |-> TRUE,
              elems |-> [k \in 1..((Len(inner) + 1) \div 2) |-> ElemOfLex(inner[2 * k - 1])]]
      ELSE [ok |-> FALSE, isArray |-> FALSE, elems |-> <<>>]

\* response.match(/\[[\s\S]*?\]/): the first '[' up to the first ']' after it
MatchFirstArray(text) ==
  LET opens == {i \in 1..Len(text) : text[i] = "["}
  IN  IF opens = {} THEN [found |-> FALSE, text |-> <<>>]
      ELSE LET i      == MinOf(opens)
               closes == {j \in (i + 1)..Len(text) : text[j] = "]"}
           IN  IF closes = {} THEN [found |-> FALSE, text |-> <<>>]
               ELSE [found |-> TRUE, text |-> SubSeq(text, i, MinOf(closes))]

(***************************************************************************)
(* callLLM and rankChunksByImportance.                                     *)
(***************************************************************************)
ErrorSentinel ==
  <<"E","r","r","o","r"," ","i","n"," ","s","u","m","m","a","r","i","z","a",
    "t","i","o","n">>

NoReasonProvided ==
  <<"N","o"," ","r","e","a","s","o","n"," ","p","r","o","v","i","d","e","d">>

ExtractedRanking ==
  <<"E","x","t","r","a","c","t","e","d"," ","r","a","n","k","i","n","g">>

DefaultRankingReason ==
  <<"D","e","f","a","u","l","t"," ","r","a","n","k","i","n","g"," ","(","p",
    "a","r","s","e"," ","f","a","i","l","e","d",")">>

\* the score given when none can be used
DefaultScore == 5

\* the most chunks the default ranking returns
DefaultRankLimit == 10

\* what the model oracle does on a call: it raises, or it returns a text
OracleRaises == [raised |-> TRUE, text |-> <<>>]

OracleReturns(t) == [raised |-> FALSE, text |-> t]

\* what a call gives its caller: a text, or the exception it threw
Returned(t) == [threw |-> FALSE, text |-> t]

Threw == [threw |-> TRUE, text |-> <<>>]

\* a variant of callLLM without the catch block: a raise of the oracle is thrown on
callLLMNoCatch(outcome) == IF outcome.raised THEN Threw ELSE Returned(Trim(outcome.text))

\* callLLM: the trimmed text, or the error sentinel when the call raises
callLLM(outcome) ==
  IF outcome.raised THEN Returned(ErrorSentinel) ELSE Returned(Trim(outcome.text))

\* a variant of Attempts for a callLLM that calls generateText again after a raise
AttemptsWithRetry(outcome) == IF outcome.raised THEN 2 ELSE 1

\* the generateText calls of one callLLM: the one in its try block, whatever it does
Attempts(outcome) == 1

\* a variant of ClampIndex without the lower bound: Math.min(chunks.length - 1, Number(p.index))
ClampIndexNoFloor(n, index) == MathMin(JsInt(n - 1), ToNumber(index))

\* Math.max(0, Math.min(chunks.length - 1, Number(p.index)))
ClampIndex(n, index) == MathMax(JsInt(0), MathMin(JsInt(n - 1), ToNumber(index)))

\* tier 1: the element of the ranking for reply element p
Tier1Entry(chunks, p) ==
  [chunk  |-> ChunkAt(chunks, ClampIndex(Len(chunks), p.index)),
   score  |-> ToNumber(p.score),
   reason |-> IF Truthy(p.reason) THEN p.reason ELSE JsStr(NoReasonProvided)]

\* a variant of Tier1 that does not test the type of the score
Tier1AnyScore(chunks, response) ==
  LET parsedReply == JSONParse(Trim(response))
  IN  IF /\ parsedReply.ok
         /\ parsedReply.isArray
         /\ \A k \in 1..Len(parsedReply.elems) :
              /\ ~parsedReply.elems[k].isNull
              /\ TypeOf(parsedReply.elems[k].index) = "number"
        THEN [accepted |-> TRUE,
              elems    |-> parsedReply.elems,
              ranked   |-> [k \in 1..Len(parsedReply.elems) |->
                              Tier1Entry(chunks, parsedReply.elems[k])]]
        ELSE [accepted |-> FALSE, elems |-> <<>>, ranked |-> <<>>]

\* tier 1: JSON.parse of the trimmed reply, accepted when it is an array whose
\* elements all have a numeric index and score (a null element throws, and is caught)
Tier1(chunks, response) ==
  LET parsedReply == JSONParse(Trim(response))
  IN  IF /\ parsedReply.ok
         /\ parsedReply.isArray
         /\ \A k \in 1..Len(parsedReply.elems) :
              /\ ~parsedReply.elems[k].isNull
              /\ TypeOf(parsedReply.elems[k].index) = "number"
              /\ TypeOf(parsedReply.elems[k].score) = "number"
        THEN [accepted |-> TRUE,
              elems    |-> parsedReply.elems,
              ranked   |-> [k \in 1..Len(parsedReply.elems) |->
                              Tier1Entry(chunks, parsedReply.elems[k])]]
        ELSE [accepted |-> FALSE, elems |-> <<>>, ranked |-> <<>>]

\* tier 2: the filter on the elements of the extracted array
Tier2Keeps(p) == p.index.ty # "undefined" /\ ToNumber(p.index).ty # "nan"

\* tier 2: the element of the ranking for reply element p
Tier2Entry(chunks, p) ==
  [chunk  |-> ChunkAt(chunks, ClampIndex(Len(chunks), p.index)),
   score  |-> IF Truthy(ToNumber(p.score)) THEN ToNumber(p.score) ELSE JsInt(DefaultScore),
   reason |-> IF Truthy(p.reason) THEN p.reason ELSE JsStr(ExtractedRanking)]

\* tier 2: the first bracketed substring, parsed, accepted when it is a non-empty
\* array (a null element throws in the filter, and is caught)
Tier2(chunks, response) ==
  LET arrayMatch  == MatchFirstArray(response)
      parsedReply == JSONParse(arrayMatch.text)
  IN  IF /\ arrayMatch.found
         /\ parsedReply.ok
         /\ parsedReply.isArray
         /\ Len(parsedReply.elems) > 0
         /\ \A k \in 1..Len(parsedReply.elems) : ~parsedReply.elems[k].isNull
        THEN LET kept == SelectSeq(parsedReply.elems, Tier2Keeps)
             IN  [accepted |-> TRUE,
                  elems    |-> kept,
                  ranked   |-> [k \in 1..Len(kept) |-> Tier2Entry(chunks, kept[k])]]
        ELSE [accepted |-> FALSE, elems |-> <<>>, ranked |-> <<>>]

\* a variant of tier 3 without the limit: every chunk gets the default entry
Tier3All(chunks) ==
  [k \in 1..Len(chunks) |->
     [chunk  |-> JsStr(chunks[k]),
      score  |-> JsInt(DefaultScore),
      reason |-> JsStr(DefaultRankingReason)]]

\* tier 3: the first min(length, 10) chunks with the default score and reason
Tier3(chunks) ==
  [k \in 1..Min2(Len(chunks), DefaultRankLimit) |->
     [chunk  |-> JsStr(chunks[k]),
      score  |-> JsInt(DefaultScore),
      reason |-> JsStr(DefaultRankingReason)]]

\* rankChunksByImportance for the response callLLM gave
rankChunksByImportance(chunks, response) ==
  IF chunks = <<>> THEN <<>>
  ELSE IF Tier1(chunks, response).accepted THEN Tier1(chunks, response).ranked
  ELSE IF Tier2(chunks, response).accepted THEN Tier2(chunks, response).ranked
  ELSE Tier3(chunks)

(***************************************************************************)
(* The Traversal Engine (rrs, prrs): paths, the file tree and the nodes.   *)
(* A path is the sequence of its components; a component is a text.        *)
(***************************************************************************)
SkipSentinel ==
  <<"S","k","i","p","p","e","d"," ","(","n","o","n","-","s",
    "o","u","r","c","e"," ","f","i","l","e",")">>

DepthLimitReached ==
  <<"D","e","p","t","h"," ","l","i","m","i","t"," ","r","e",
    "a","c","h","e","d">>

EmptyFile ==
  <<"E","m","p","t","y"," ","f","i","l","e">>

NoChunksExtracted ==
  <<"N","o"," ","c","h","u","n","k","s"," ","e","x","t","r",
    "a","c","t","e","d">>

EmptyFolder ==
  <<"E","m","p","t","y"," ","f","o","l","d","e","r"," ","(",
    "i","g","n","o","r","e","d"," ","i","t","e","m","s"," ",
    "o","n","l","y",")">>

\* a deny list that lacks the version-control directory
DenyListShort ==
  { <<"n","o","d","e","_","m","o","d","u","l","e","s">>, <<"d","i","s","t">> }

\* the directory names the folder loop passes over
DenyList ==
  { <<"n","o","d","e","_","m","o","d","u","l","e","s">>,
    <<".","g","i","t">>,
    <<"d","i","s","t">> }

\* the extensions of the files that are summarized
SourceExts ==
  { <<".","t","s">>, <<".","j","s">>, <<".","p","y">>, <<".","j","s","o","n">> }

\* the maxChunks rrs passes to splitFileIntoChunks
RrsMaxChunks == 10

\* the number of ranked chunks summarizeChunks uses
TopChunks == 5

\* the characters of a child summary in the aggregation prompt
SummaryPrefixLen == 100

\* the characters of a chunk in the rank prompt
PreviewLen == 400

\* a node without path and type
NoPath == <<>>

NoType == "none"

SummaryNode(summary, children, path, type) ==
  [summary |-> summary, children |-> children, path |-> path, type |-> type]

EndsWith(s, p) == Len(s) >= Len(p) /\ SubSeq(s, Len(s) - Len(p) + 1, Len(s)) = p

\* path.basename of a path, '' for a node without path
BaseName(path) == IF path = NoPath THEN <<>> ELSE path[Len(path)]

\* path.extname: from the last dot of the base name, '' without a dot or when the
\* only dot starts the name
ExtName(path) ==
  LET name == BaseName(path)
      dots == {i \in 1..Len(name) : name[i] = "."}
  IN  IF dots = {} \/ MaxOf(dots) = 1 THEN <<>>
      ELSE SubSeq(name, MaxOf(dots), Len(name))

\* the match without its end anchors: ext.match(/\.ts|\.js|\.py|\.json/i)
IsSourceExtUnanchored(ext) == \E e \in SourceExts : StartsWith(Lower(ext), e)

\* ext.match(/\.ts$|\.js$|\.py$|\.json$/i)
IsSourceExt(ext) == \E e \in SourceExts : EndsWith(Lower(ext), e)

\* depth > maxDepth, with a variant that stops one level later
DepthExceededLate(depth, limit) == depth > limit + 1

DepthExceeded(depth, limit) == depth > limit

\* the filter on the child results, with a variant that keeps every child
KeepsEveryChild(c) == TRUE

KeepsChild(c) == ~StartsWith(c.summary, SkipSentinel)

\* children.filter(c => !c.summary.startsWith('Skipped (non-source file)'))
FilterChildren(children) == SelectSeq(children, KeepsChild)

\* one line of the aggregation prompt
ChildLine(c) ==
  BaseName(c.path) \o <<":", " ">> \o Slice(c.summary, 0, SummaryPrefixLen)
    \o <<".", ".", ".">>

\* c.replace(/\n+/g, ' ')
RECURSIVE CollapseNewlines(_)
CollapseNewlines(s) ==
  IF s = <<>> THEN <<>>
  ELSE IF s[1] # NL THEN <<s[1]>> \o CollapseNewlines(Tail(s))
  ELSE IF Len(s) > 1 /\ s[2] = NL THEN CollapseNewlines(Tail(s))
  ELSE <<" ">> \o CollapseNewlines(Tail(s))

\* one line of the rank prompt: the index and the preview of chunk i (from 0);
\* "..." stands for the ellipsis character
PreviewLine(chunks, i) ==
  <<ToString(i), ")", " ">> \o CollapseNewlines(Slice(chunks[i + 1], 0, PreviewLen))
    \o (IF Len(chunks[i + 1]) > PreviewLen THEN <<"...">> ELSE <<>>)

\* a value inside a template string
TemplateText(v) ==
  CASE v.ty = "string" -> v.s
    [] v.ty = "number" -> <<NumLex(v.h)>>
    [] v.ty = "nan" -> <<"NaN">>
    [] v.ty = "null" -> <<"null">>
    [] OTHER -> <<"undefined">>

\* one entry of the summarize prompt: `${c.score}: ${c.reason}\n${c.chunk}`
TopChunkLine(c) ==
  TemplateText(c.score) \o <<":", " ">> \o TemplateText(c.reason) \o <<NL>>
    \o TemplateText(c.chunk)

\* the prompts, by their kind, their lens and the lines built from the data
RankPrompt(chunks, lens) ==
  [kind |-> "rank", lens |-> lens,
   lines |-> [i \in 1..Len(chunks) |-> PreviewLine(chunks, i - 1)]]

\* the entries in decreasing order of score, entries of equal score in their order
RECURSIVE SortedByScore(_)
SortedByScore(rankedChunks) ==
  IF rankedChunks = <<>> THEN <<>>
  ELSE LET top == MinOf({i \in 1..Len(rankedChunks) :
                           \A j \in 1..Len(rankedChunks) :
                             rankedChunks[j].score.h <= rankedChunks[i].score.h})
       IN  <<rankedChunks[top]>>
             \o SortedByScore(SubSeq(rankedChunks, 1, top - 1)
                                \o SubSeq(rankedChunks, top + 1, Len(rankedChunks)))

\* a variant of SummarizePrompt that sorts the entries by score before it takes the top
SummarizePromptSorted(rankedChunks, lens) ==
  [kind |-> "summarize", lens |-> lens,
   lines |-> [i \in 1..Min2(TopChunks, Len(rankedChunks)) |->
                TopChunkLine(SortedByScore(rankedChunks)[i])]]

SummarizePrompt(rankedChunks, lens) ==
  [kind |-> "summarize", lens |-> lens,
   lines |-> [i \in 1..Min2(TopChunks, Len(rankedChunks)) |->
                TopChunkLine(rankedChunks[i])]]

AggregatePrompt(filteredChildren, lens) ==
  [kind |-> "aggregate", lens |-> lens,
   lines |-> [i \in 1..Len(filteredChildren) |-> ChildLine(filteredChildren[i])]]

NoPrompt == [kind |-> "none", lens |-> "", lines |-> <<>>]

\* estimateMaxChunkChars: the tokens of the model key, or of the discovery call,
\* or the default, turned into characters
StaticModelKeys == {"g4f-reasoning", "g4f-no-reasoning"}

StaticTokens == 8192

DefaultTokens == 4096

MinChunkChars == 1000

\* the properties every object literal inherits from Object.prototype
InheritedKeys == {"constructor", "toString", "valueOf", "hasOwnProperty"}

\* a function value, such as Object.prototype.toString
JsFunction == [ty |-> "function", h |-> 0, s |-> <<>>]

\* tokenWindowByModel[modelKey]: an own property, or one inherited from the prototype
TokenWindowByModel(modelKey) ==
  IF modelKey \in StaticModelKeys THEN JsInt(StaticTokens)
  ELSE IF modelKey \in InheritedKeys THEN JsFunction
  ELSE JsUndefined

\* getContext was not asked
NoContext == [raised |-> TRUE, isNumber |-> FALSE, value |-> 0]

\* typeof ctx === 'number' && ctx > 0, for what getContext gave
ContextUsable(ctx) == ~ctx.raised /\ ctx.isNumber /\ ctx.value > 0

\* Math.max(1000, Math.floor(tokens * 4 * fraction)) with fraction = 0.20: for a
\* number of tokens the floor of four fifths of it, and NaN for anything else
ApproxChars(tokens) ==
  IF tokens.ty = "number"
    THEN MathMax(JsInt(MinChunkChars), JsInt((tokens.h * 2) \div 5))
    ELSE JsNaN

\* ctx is what getContext gives: it raises, or returns a number, or something else;
\* the key "" stands for no key
estimateMaxChunkChars(modelKey, ctx) ==
  LET tokens == IF modelKey = "" THEN JsInt(DefaultTokens)
                ELSE IF Truthy(TokenWindowByModel(modelKey)) THEN TokenWindowByModel(modelKey)
                ELSE IF ContextUsable(ctx) THEN JsInt(ctx.value)
                ELSE JsInt(DefaultTokens)
  IN  ApproxChars(tokens)

\* the integer a JavaScript number holds
IntegerOf(v) == v.h \div 2

(***************************************************************************)
(* The inputs of the Chunker: texts of up to MaxLines lines drawn from a   *)
(* vocabulary of lines (blank, short, a declaration start, two lines that  *)
(* reach the split offset), and small size and count limits.               *)
(***************************************************************************)
MaxLines == 3

MaxMaxChunks == 2

LineVocab ==
  { <<>>,
    <<"a">>,
    <<"v","a","r"," ","a",";">>,
    <<"a","a","a","a","a","a","a","a","a",";">>,
    <<"b","b","b","b","b","b","b","b","b","b","b",";">> }

Texts ==
  {Join(ls, <<NL>>) : ls \in UNION {[1..n -> LineVocab] : n \in 1..MaxLines}}

CharCaps == {1, 5, 12}

VARIABLES
  fileContent,    \* splitFileIntoChunks: the text to split
  maxChunks,      \* its maxChunks
  maxChunkChars,  \* its maxChunkChars
  parsed,         \* the outcome of the structural pass
  declTexts,      \* the candidate chunks of the structural path
  chunks,         \* the candidate chunks of the fallback
  result,         \* the chunks returned
  cpath,          \* the path taken: "structural" or "fallback"
  cpc             \* where splitFileIntoChunks is

chunkerVars ==
  <<fileContent, maxChunks, maxChunkChars, parsed, declTexts, chunks, result, cpath, cpc>>

VARIABLES
  rchunks,        \* rankChunksByImportance: the chunks to rank
  response,       \* the response callLLM returned
  accepted,       \* the reply elements the accepting tier mapped, in order
  ranked,         \* the RankedChunks returned
  tier,           \* the tier that returned (0: none yet)
  rpc             \* where rankChunksByImportance is

rankerVars == <<rchunks, response, accepted, ranked, tier, rpc>>

VARIABLES
  fsRoot,            \* the file tree at the root path
  lenses,            \* prrs: the lenses requested
  maxDepth,          \* its maxDepth
  rrsMaxChunkChars,  \* the maxChunkChars it passes to rrs
  lensIdx,           \* the number of lenses whose traversal was started
  summaries,         \* the mapping from lens to root node built so far
  stack,             \* the rrs calls in progress, the innermost last
  ppc,               \* where prrs is
  accesses,          \* the file-system operations made, with their paths
  calls,             \* the model calls made, with the path they were made for
  modelCalls,        \* the number of generateText calls of the traversal in progress
  lastPrompt,        \* the prompt of the last model call
  keys,              \* the own keys of summaries, in the order they were created
  faults,            \* the file-system operations that raise, by lens traversal
  oracle             \* the model and the parser: free, or fixed functions

prrsVars ==
  <<fsRoot, lenses, maxDepth, rrsMaxChunkChars, lensIdx, summaries, stack, ppc,
    accesses, calls, modelCalls, lastPrompt, keys, faults, oracle>>

VARIABLES
  estKey,      \* estimateMaxChunkChars: the model key, "" for none
  estContext,  \* what getContext gives for the key when it is asked
  estTokens,   \* the local tokens
  estQueried,  \* whether getContext was called
  estChars,    \* the value returned
  estPc        \* where the call is

estimatorVars == <<estKey, estContext, estTokens, estQueried, estChars, estPc>>

VARIABLES
  sumRanked,   \* summarizeChunks: the rankedChunks it is given
  sumLens,     \* its lens
  sumPrompt,   \* the prompt it built
  sumCalls,    \* the number of model calls it made
  sumResult,   \* what it returned, by value or by throwing
  sumPc        \* where the call is

summarizerVars == <<sumRanked, sumLens, sumPrompt, sumCalls, sumResult, sumPc>>

VARIABLES
  spText,      \* splitTextBySize: its text
  spLines,     \* the lines of the text
  spMaxChars,  \* its maxChars
  spK,         \* the number of lines the loop has taken
  spState,     \* its chunks and its cur
  spBuffered,  \* the cur the last iteration found
  spSplitPos,  \* the offset of cur the last iteration split at, -1 when it split at none
  spPc         \* where the call is

splitterVars == <<spText, spLines, spMaxChars, spK, spState, spBuffered, spSplitPos, spPc>>

vars == <<chunkerVars, rankerVars, prrsVars, estimatorVars, summarizerVars, splitterVars>>

\* summarizeChunks at rest
SummarizerIdle ==
  /\ sumRanked = <<>>
  /\ sumLens = ""
  /\ sumPrompt = NoPrompt
  /\ sumCalls = 0
  /\ sumResult = Returned(<<>>)
  /\ sumPc = "idle"

\* splitTextBySize at rest
SplitterIdle ==
  /\ spText = <<>>
  /\ spLines = <<>>
  /\ spMaxChars = 0
  /\ spK = 0
  /\ spState = [chunks |-> <<>>, cur |-> <<>>]
  /\ spBuffered = <<>>
  /\ spSplitPos = -1
  /\ spPc = "idle"

\* the estimator at rest
EstimatorIdle ==
  /\ estKey = ""
  /\ estContext = NoContext
  /\ estTokens = JsUndefined
  /\ estQueried = FALSE
  /\ estChars = JsUndefined
  /\ estPc = "idle"

\* the Chunker at rest, while another component runs
ChunkerIdle ==
  /\ fileContent = <<>>
  /\ maxChunks = 1
  /\ maxChunkChars = 1
  /\ parsed = Throws
  /\ declTexts = <<>>
  /\ chunks = <<>>
  /\ result = <<>>
  /\ cpath = "none"
  /\ cpc = "idle"

\* the Ranker at rest
RankerIdle ==
  /\ rchunks = <<>>
  /\ response = <<>>
  /\ accepted = <<>>
  /\ ranked = <<>>
  /\ tier = 0
  /\ rpc = "idle"

\* a model oracle and a parser that may do anything on each call
FreeOracle ==
  [free |-> TRUE, raises |-> {}, patience |-> 0, parser |-> "any", echoes |-> {}]

\* the Traversal Engine at rest
PrrsIdle ==
  /\ fsRoot = <<>>
  /\ lenses = <<>>
  /\ maxDepth = 0
  /\ rrsMaxChunkChars = 0
  /\ lensIdx = 0
  /\ summaries = <<>>
  /\ stack = <<>>
  /\ ppc = "idle"
  /\ accesses = {}
  /\ calls = {}
  /\ modelCalls = 0
  /\ lastPrompt = NoPrompt
  /\ keys = <<>>
  /\ faults = {}
  /\ oracle = FreeOracle

ChunkerInit ==
  /\ fileContent \in Texts
  /\ maxChunks \in 1..MaxMaxChunks
  /\ maxChunkChars \in CharCaps
  /\ parsed = Throws
  /\ declTexts = <<>>
  /\ chunks = <<>>
  /\ result = <<>>
  /\ cpath = "none"
  /\ cpc = "parse"
  /\ RankerIdle
  /\ PrrsIdle
  /\ EstimatorIdle
  /\ SummarizerIdle
  /\ SplitterIdle

\* ts.createSourceFile(...): the structural pass throws or gives the top-level nodes
Parse ==
  /\ cpc = "parse"
  /\ \E o \in ParseOutcomes(fileContent) :
       /\ parsed' = o
       /\ cpc' = IF o.ok THEN "collect" ELSE "fallback"
  /\ UNCHANGED <<fileContent, maxChunks, maxChunkChars, declTexts, chunks, result, cpath>>
  /\ UNCHANGED <<rankerVars, prrsVars, estimatorVars, summarizerVars, splitterVars>>

\* forEachChild collects the candidates; none found throws into the fallback
Collect ==
  /\ cpc = "collect"
  /\ declTexts' = CollectDecls(fileContent, parsed.nodes, 1, maxChunkChars)
  /\ cpc' = IF declTexts' = <<>> THEN "fallback" ELSE "group"
  /\ UNCHANGED <<fileContent, maxChunks, maxChunkChars, parsed, chunks, result, cpath>>
  /\ UNCHANGED <<rankerVars, prrsVars, estimatorVars, summarizerVars, splitterVars>>

\* the return of the try block
ReturnStructural ==
  /\ cpc = "group"
  /\ result' = StructuralResult(declTexts, maxChunks)
  /\ cpath' = "structural"
  /\ cpc' = "done"
  /\ UNCHANGED <<fileContent, maxChunks, maxChunkChars, parsed, declTexts, chunks>>
  /\ UNCHANGED <<rankerVars, prrsVars, estimatorVars, summarizerVars, splitterVars>>

\* the catch block's loop over the lines and its last flush
FallbackScan ==
  /\ cpc = "fallback"
  /\ chunks' = FallbackChunks(fileContent, maxChunks, maxChunkChars)
  /\ cpc' = "clamp"
  /\ UNCHANGED <<fileContent, maxChunks, maxChunkChars, parsed, declTexts, result, cpath>>
  /\ UNCHANGED <<rankerVars, prrsVars, estimatorVars, summarizerVars, splitterVars>>

\* the return of the catch block
ReturnFallback ==
  /\ cpc = "clamp"
  /\ result' = FallbackResult(chunks, maxChunks)
  /\ cpath' = "fallback"
  /\ cpc' = "done"
  /\ UNCHANGED <<fileContent, maxChunks, maxChunkChars, parsed, declTexts, chunks>>
  /\ UNCHANGED <<rankerVars, prrsVars, estimatorVars, summarizerVars, splitterVars>>

ChunkerNext ==
  \/ Parse
  \/ Collect
  \/ ReturnStructural
  \/ FallbackScan
  \/ ReturnFallback

ChunkerSpec == ChunkerInit /\ [][ChunkerNext]_vars

(***************************************************************************)
(* The Ranker: rankChunksByImportance on 1..MaxRankChunks chunks, and on   *)
(* one chunk more than the default ranking returns, for                    *)
(* every outcome of its one model call: a raise, or a reply that is a JSON *)
(* array of up to MaxElems elements, bare, inside prose or unclosed, prose *)
(* alone, or a single JSON object.                                         *)
(***************************************************************************)
MaxRankChunks == 2

MaxElems == 2

\* the chunks "c1", "c2", ... of a file
ChunkList(n) == [i \in 1..n |-> <<"c", ToString(i)>>]

ProseBefore == <<"O", "k", ":", " ">>

ProseAfter == <<" ", "d", "o", "n", "e", ".">>

\* the text of a JSON array of the elements
ArrayText(es) ==
  <<"[">> \o Join([k \in 1..Len(es) |-> <<ElemLex(es[k])>>], <<",">>) \o <<"]">>

ElemLists == UNION {[1..n -> ReplyElems] : n \in 0..MaxElems}

ReplyTexts ==
  {ArrayText(es) \o <<NL>> : es \in ElemLists}
    \cup {ProseBefore \o ArrayText(es) \o ProseAfter : es \in ElemLists}
    \cup {<<"[">> \o <<ElemLex(e)>> : e \in ReplyElems}
    \cup {<<ElemLex(e)>> : e \in ReplyElems}
    \cup {ProseBefore \o ProseAfter}

OracleOutcomes == {OracleRaises} \cup {OracleReturns(t) : t \in ReplyTexts}

RankerInit ==
  /\ rchunks \in {ChunkList(n) : n \in (1..MaxRankChunks) \cup {DefaultRankLimit + 1}}
  /\ response = <<>>
  /\ accepted = <<>>
  /\ ranked = <<>>
  /\ tier = 0
  /\ rpc = "call"
  /\ ChunkerIdle
  /\ PrrsIdle
  /\ EstimatorIdle
  /\ SummarizerIdle
  /\ SplitterIdle

\* const response = await callLLM(prompt, model)
RankCall ==
  /\ rpc = "call"
  /\ \E o \in OracleOutcomes :
       LET r == callLLM(o)
       IN  /\ response' = r.text
           /\ rpc' = IF r.threw THEN "rejected" ELSE "tier1"
  /\ UNCHANGED <<rchunks, accepted, ranked, tier>>
  /\ UNCHANGED <<chunkerVars, prrsVars, estimatorVars, summarizerVars,
                 splitterVars>>

\* tier 1 returns, or falls through
RankTier1 ==
  /\ rpc = "tier1"
  /\ LET t == Tier1(rchunks, response)
     IN  IF t.accepted
           THEN /\ ranked' = t.ranked
                /\ accepted' = t.elems
                /\ tier' = 1
                /\ rpc' = "done"
           ELSE /\ rpc' = "tier2"
                /\ UNCHANGED <<accepted, ranked, tier>>
  /\ UNCHANGED <<rchunks, response>>
  /\ UNCHANGED <<chunkerVars, prrsVars, estimatorVars, summarizerVars,
                 splitterVars>>

\* tier 2 returns, or falls through
RankTier2 ==
  /\ rpc = "tier2"
  /\ LET t == Tier2(rchunks, response)
     IN  IF t.accepted
           THEN /\ ranked' = t.ranked
                /\ accepted' = t.elems
                /\ tier' = 2
                /\ rpc' = "done"
           ELSE /\ rpc' = "tier3"
                /\ UNCHANGED <<accepted, ranked, tier>>
  /\ UNCHANGED <<rchunks, response>>
  /\ UNCHANGED <<chunkerVars, prrsVars, estimatorVars, summarizerVars,
                 splitterVars>>

\* tier 3 returns the default ranking
RankTier3 ==
  /\ rpc = "tier3"
  /\ ranked' = Tier3(rchunks)
  /\ tier' = 3
  /\ rpc' = "done"
  /\ UNCHANGED <<rchunks, response, accepted>>
  /\ UNCHANGED <<chunkerVars, prrsVars, estimatorVars, summarizerVars,
                 splitterVars>>

RankerNext ==
  \/ RankCall
  \/ RankTier1
  \/ RankTier2
  \/ RankTier3

RankerSpec == RankerInit /\ [][RankerNext]_vars

(***************************************************************************)
(* The Traversal Engine: prrs over every file tree of up to MaxNodes       *)
(* entries below the root, MaxEntries per directory and TreeDepth levels,  *)
(* for up to MaxLenses lenses and every maxDepth up to MaxMaxDepth.  The   *)
(* entries are source files with code or blank content, a file without a   *)
(* source extension, a deny-listed directory and plain directories.  Each  *)
(* model call raises or returns a text.                                    *)
(***************************************************************************)
MaxNodes == 3

MaxEntries == 2

TreeDepth == 3

MaxMaxDepth == 2

MaxLenses == 2

RootName == <<"r","e","p","o">>

SubName == <<"s","u","b">>

DistName == <<"d","i","s","t">>

TsName == <<"a",".","t","s">>

JsName == <<"c",".","J","S">>

EnvName == <<"b",".","e","n","v">>

CodeText == <<"v","a","r"," ","a",";">>

BlankText == <<" ", NL>>

EnvText == <<"K","=","1">>

FileEntry(name, content) ==
  [name |-> name, isFile |-> TRUE, content |-> content, entries |-> <<>>]

DirEntry(name, entries) ==
  [name |-> name, isFile |-> FALSE, content |-> <<>>, entries |-> entries]

\* the number of entries of a tree, its root included
RECURSIVE EntrySize(_)
EntrySize(e) ==
  LET RECURSIVE Sum(_)
      Sum(list) == IF list = <<>> THEN 0 ELSE EntrySize(list[1]) + Sum(Tail(list))
  IN  1 + Sum(e.entries)

\* the number of directory levels below an entry
RECURSIVE EntryHeight(_)
EntryHeight(e) ==
  IF e.entries = <<>> THEN 0
  ELSE 1 + MaxOf({EntryHeight(e.entries[k]) : k \in 1..Len(e.entries)})

LeafEntries ==
  { FileEntry(TsName, CodeText),
    FileEntry(TsName, BlankText),
    FileEntry(JsName, CodeText),
    FileEntry(EnvName, EnvText),
    DirEntry(DistName, <<>>),
    DirEntry(DistName, <<FileEntry(TsName, CodeText)>>) }

\* the entries a directory at depth d - 1 can hold, and its listings of up to n
\* of them with distinct names, within a budget of entries
RECURSIVE EntriesAt(_, _), ListingsAt(_, _, _)
EntriesAt(d, budget) ==
  {e \in LeafEntries : EntrySize(e) <= budget}
    \cup (IF budget = 0 THEN {}
          ELSE IF d < TreeDepth
            THEN {DirEntry(SubName, l) : l \in ListingsAt(d + 1, budget - 1, MaxEntries)}
          ELSE {DirEntry(SubName, <<>>)})

ListingsAt(d, budget, n) ==
  IF n = 0 \/ budget = 0 THEN {<<>>}
  ELSE {<<>>} \cup
       UNION { { <<e>> \o rest :
                   rest \in {r \in ListingsAt(d, budget - EntrySize(e), n - 1) :
                               \A k \in 1..Len(r) : r[k].name # e.name} } :
               e \in EntriesAt(d, budget) }

\* the trees: a directory, or a single file, at the root path
Trees ==
  {DirEntry(RootName, l) : l \in ListingsAt(1, MaxNodes, MaxEntries)}
    \cup {FileEntry(TsName, CodeText), FileEntry(EnvName, EnvText)}

LensNames == <<"architecture", "security", "performance", "testing">>

LensLists == {SubSeq(LensNames, 1, n) : n \in 0..MaxLenses}

\* the model keys prrs is called with
ModelKeys == {"g4f-reasoning"}

SummaryText == <<" ","S","u","m",".",NL>>

SummaryOutcomes == {OracleRaises, OracleReturns(SummaryText)}

RankOutcomes ==
  { OracleRaises,
    OracleReturns(ArrayText(<<JsonObj(JsInt(0), JsInt(7), JsStr(<<"r">>), JsUndefined)>>)),
    OracleReturns(ProseBefore \o ProseAfter) }

\* a directory link to the root directory: a listed name that is no entry of its own
LinkEntry(name) ==
  [name |-> name, isFile |-> FALSE, content |-> <<>>, entries |-> <<>>, link |-> TRUE]

IsLink(entry) == "link" \in DOMAIN entry

\* what fs.stat and fs.readdir see at a listed entry: they follow a link to its target
Resolve(entry) == IF IsLink(entry) THEN fsRoot ELSE entry

\* the entry of the tree at a path below the root path
RECURSIVE Walk(_, _, _)
Walk(entry, path, i) ==
  IF i > Len(path) THEN entry
  ELSE LET k == CHOOSE k \in 1..Len(entry.entries) : entry.entries[k].name = path[i]
       IN  Walk(Resolve(entry.entries[k]), path, i + 1)

EntryAt(path) == Walk(fsRoot, path, 2)

RootPath == <<fsRoot.name>>

\* the depth of a path: 0 for the root path
DepthOf(path) == Len(path) - 1

\* an rrs call that has just been made
Frame(path, depth) ==
  [path |-> path, depth |-> depth, pc |-> "enter", items |-> <<>>, k |-> 0,
   children |-> <<>>, content |-> <<>>, chunks |-> <<>>, ranked |-> <<>>]

Top == stack[Len(stack)]

\* a variant of Lens: every traversal runs for the first lens requested
LensFirst == lenses[1]

\* the lens of the traversal in progress
Lens == lenses[lensIdx]

\* a file-system operation on a path, made in the traversal of the current lens
Access(op, path) == [op |-> op, path |-> path, at |-> lensIdx]

Call(kind, path, raised) ==
  [kind |-> kind, path |-> path, lens |-> Lens, raised |-> raised]

\* summaries[lens] = node
MapPut(map, key, value) ==
  [l \in DOMAIN map \cup {key} |-> IF l = key THEN value ELSE map[l]]

NoSummaries == [l \in {} |-> <<>>]

\* a variant of FsRaises for a file system that never fails
FsRaisesNever(op, path) == FALSE

\* whether the file-system operation raises in the traversal of the current lens
FsRaises(op, path) == Access(op, path) \in faults

\* the reply of a fixed model to a prompt: it raises for the kinds and lenses it
\* refuses and for a prompt of more lines than its patience; otherwise it ranks the
\* last chunk first, or returns a text made of the lens, the number of lines and the
\* first line
OracleReply(o, prompt) ==
  IF \/ [kind |-> prompt.kind, lens |-> prompt.lens] \in o.raises
     \/ Len(prompt.lines) > o.patience
    THEN OracleRaises
  ELSE IF prompt.kind = "rank"
    THEN OracleReturns(ArrayText(<<JsonObj(JsInt(Len(prompt.lines) - 1), JsInt(7),
                                           JsStr(<<"r">>), JsUndefined)>>))
  ELSE OracleReturns(<<" ", prompt.lens, ":", ToString(Len(prompt.lines))>>
                       \o (IF prompt.lines = <<>> THEN <<>> ELSE prompt.lines[1])
                       \o <<".", NL>>)

\* what generateText can do for a prompt
OracleChoices(outcomes, prompt) ==
  IF oracle.free
    THEN outcomes \cup (IF prompt.kind = "rank" THEN {} ELSE oracle.echoes)
    ELSE {OracleReply(oracle, prompt)}

\* what ts.createSourceFile of a fixed parser gives for a text
FixedParse(o, text) ==
  CASE o.parser = "throws" -> Throws
    [] o.parser = "whole"  -> [ok |-> TRUE, nodes |-> NodesOfCuts({}, Len(text))]
    [] OTHER               -> [ok |-> TRUE, nodes |-> NodesOfCuts(CutPoints(text), Len(text))]

\* what ts.createSourceFile can do for a text
ParseChoices(text) ==
  IF oracle.free THEN ParseOutcomes(text) ELSE {FixedParse(oracle, text)}

\* what an rrs step leaves alone
SameInputs ==
  UNCHANGED <<fsRoot, lenses, maxDepth, rrsMaxChunkChars, lensIdx, faults, oracle,
              chunkerVars, rankerVars, estimatorVars, summarizerVars, splitterVars>>

\* a variant of Deliver whose loop moves on by two entries after a child returns
DeliverSkipping(node) ==
  IF Len(stack) = 1
    THEN /\ stack' = <<>>
         /\ summaries' = MapPut(summaries, Lens, node)
         /\ keys' = IF Lens \in DOMAIN summaries THEN keys ELSE Append(keys, Lens)
         /\ ppc' = "lens"
    ELSE /\ stack' = SubSeq(stack, 1, Len(stack) - 2) \o
                       << [stack[Len(stack) - 1] EXCEPT
                             !.children = Append(@, node), !.k = @ + 2, !.pc = "loop"] >>
         /\ UNCHANGED <<summaries, keys, ppc>>

\* the innermost rrs call returns the node: to its caller's loop, or to prrs
Deliver(node) ==
  IF Len(stack) = 1
    THEN /\ stack' = <<>>
         /\ summaries' = MapPut(summaries, Lens, node)
         /\ keys' = IF Lens \in DOMAIN summaries THEN keys ELSE Append(keys, Lens)
         /\ ppc' = "lens"
    ELSE /\ stack' = SubSeq(stack, 1, Len(stack) - 2) \o
                       << [stack[Len(stack) - 1] EXCEPT
                             !.children = Append(@, node), !.k = @ + 1, !.pc = "loop"] >>
         /\ UNCHANGED <<summaries, keys, ppc>>

\* an exception leaves every rrs call in progress and rejects prrs
Reject ==
  /\ stack' = <<>>
  /\ ppc' = "rejected"
  /\ UNCHANGED <<summaries, keys>>

\* the innermost rrs call goes on
Continue(f) ==
  /\ stack' = [stack EXCEPT ![Len(stack)] = f]
  /\ UNCHANGED <<summaries, keys, ppc>>

PrrsInit ==
  /\ fsRoot \in Trees
  /\ lenses \in LensLists
  /\ maxDepth \in 0..MaxMaxDepth
  /\ rrsMaxChunkChars = 0
  /\ lensIdx = 0
  /\ summaries = NoSummaries
  /\ stack = <<>>
  /\ ppc = "start"
  /\ accesses = {}
  /\ calls = {}
  /\ modelCalls = 0
  /\ lastPrompt = NoPrompt
  /\ keys = <<>>
  /\ faults = {}
  /\ oracle = FreeOracle
  /\ ChunkerIdle
  /\ RankerIdle
  /\ EstimatorIdle
  /\ SummarizerIdle
  /\ SplitterIdle

\* const maxChunkChars = await estimateMaxChunkChars(modelKey)
PrrsStart ==
  /\ ppc = "start"
  /\ \E key \in ModelKeys :
       rrsMaxChunkChars' = IntegerOf(estimateMaxChunkChars(key, NoContext))
  /\ ppc' = "lens"
  /\ UNCHANGED <<fsRoot, lenses, maxDepth, lensIdx, summaries, stack, accesses, calls, modelCalls,
                 lastPrompt, keys, faults, oracle, chunkerVars, rankerVars,
                 estimatorVars, summarizerVars, splitterVars>>

\* for (const lens of lenses): rrs(folderPath, lens, 0, maxDepth, ...) is called
PrrsNextLens ==
  /\ ppc = "lens"
  /\ lensIdx < Len(lenses)
  /\ lensIdx' = lensIdx + 1
  /\ stack' = <<Frame(RootPath, 0)>>
  /\ ppc' = "rrs"
  /\ modelCalls' = 0
  /\ UNCHANGED <<fsRoot, lenses, maxDepth, rrsMaxChunkChars, summaries, accesses, calls,
                 lastPrompt, keys, faults, oracle, chunkerVars, rankerVars,
                 estimatorVars, summarizerVars, splitterVars>>

\* return summaries
PrrsReturn ==
  /\ ppc = "lens"
  /\ lensIdx = Len(lenses)
  /\ ppc' = "done"
  /\ UNCHANGED <<fsRoot, lenses, maxDepth, rrsMaxChunkChars, lensIdx, summaries, stack,
                 accesses, calls, modelCalls, lastPrompt, keys, faults, oracle, chunkerVars,
                 rankerVars,
                 estimatorVars, summarizerVars, splitterVars>>

\* if (depth > maxDepth) return { summary: 'Depth limit reached', children: [] }
RrsDepthLimit ==
  /\ ppc = "rrs"
  /\ Top.pc = "enter"
  /\ DepthExceeded(Top.depth, maxDepth)
  /\ Deliver(SummaryNode(DepthLimitReached, <<>>, NoPath, NoType))
  /\ UNCHANGED <<accesses, calls, modelCalls, lastPrompt>>
  /\ SameInputs

\* const stats = await fs.stat(folderPath)
RrsStat ==
  /\ ppc = "rrs"
  /\ Top.pc = "enter"
  /\ ~DepthExceeded(Top.depth, maxDepth)
  /\ accesses' = accesses \cup {Access("stat", Top.path)}
  /\ IF FsRaises("stat", Top.path)
       THEN Reject
       ELSE Continue([Top EXCEPT
                        !.pc = IF EntryAt(Top.path).isFile THEN "file" ELSE "folder"])
  /\ UNCHANGED <<calls, modelCalls, lastPrompt>>
  /\ SameInputs

\* a file whose extension is not a source extension
RrsSkipFile ==
  /\ ppc = "rrs"
  /\ Top.pc = "file"
  /\ ~IsSourceExt(ExtName(Top.path))
  /\ Deliver(SummaryNode(SkipSentinel, <<>>, Top.path, "file"))
  /\ UNCHANGED <<accesses, calls, modelCalls, lastPrompt>>
  /\ SameInputs

\* const content = await fs.readFile(folderPath, 'utf8'), and the empty file
RrsReadFile ==
  /\ ppc = "rrs"
  /\ Top.pc = "file"
  /\ IsSourceExt(ExtName(Top.path))
  /\ accesses' = accesses \cup {Access("readFile", Top.path)}
  /\ LET content == EntryAt(Top.path).content
     IN  IF FsRaises("readFile", Top.path)
           THEN Reject
         ELSE IF Trim(content) = <<>>
           THEN Deliver(SummaryNode(EmptyFile, <<>>, NoPath, NoType))
         ELSE Continue([Top EXCEPT !.content = content, !.pc = "split"])
  /\ UNCHANGED <<calls, modelCalls, lastPrompt>>
  /\ SameInputs

\* const chunks = splitFileIntoChunks(content, 10, maxChunkChars)
RrsSplitFile ==
  /\ ppc = "rrs"
  /\ Top.pc = "split"
  /\ \E o \in ParseChoices(Top.content) :
       LET fileChunks == splitFileIntoChunks(Top.content, RrsMaxChunks, rrsMaxChunkChars, o)
       IN  IF Len(fileChunks) = 0
             THEN Deliver(SummaryNode(NoChunksExtracted, <<>>, NoPath, NoType))
             ELSE Continue([Top EXCEPT !.chunks = fileChunks, !.pc = "rank"])
  /\ UNCHANGED <<accesses, calls, modelCalls, lastPrompt>>
  /\ SameInputs

\* const ranked = await rankChunksByImportance(chunks, lens, model)
RrsRankFile ==
  /\ ppc = "rrs"
  /\ Top.pc = "rank"
  /\ lastPrompt' = RankPrompt(Top.chunks, Lens)
  /\ \E o \in OracleChoices(RankOutcomes, RankPrompt(Top.chunks, Lens)) :
       LET r == callLLM(o)
       IN  /\ calls' = calls \cup {Call("rank", Top.path, o.raised)}
           /\ modelCalls' = modelCalls + Attempts(o)
           /\ IF r.threw THEN Reject
              ELSE Continue([Top EXCEPT
                               !.ranked = rankChunksByImportance(Top.chunks, r.text),
                               !.pc = "summarize"])
  /\ UNCHANGED accesses
  /\ SameInputs

\* const summary = await summarizeChunks(ranked, lens, model), and the file node
RrsSummarizeFile ==
  /\ ppc = "rrs"
  /\ Top.pc = "summarize"
  /\ lastPrompt' = SummarizePrompt(Top.ranked, Lens)
  /\ \E o \in OracleChoices(SummaryOutcomes, SummarizePrompt(Top.ranked, Lens)) :
       LET r == callLLM(o)
       IN  /\ calls' = calls \cup {Call("summarize", Top.path, o.raised)}
           /\ modelCalls' = modelCalls + Attempts(o)
           /\ IF r.threw THEN Reject
              ELSE Deliver(SummaryNode(r.text, <<>>, Top.path, "file"))
  /\ UNCHANGED accesses
  /\ SameInputs

\* const items = await fs.readdir(folderPath)
RrsReadDir ==
  /\ ppc = "rrs"
  /\ Top.pc = "folder"
  /\ accesses' = accesses \cup {Access("readdir", Top.path)}
  /\ LET entries == EntryAt(Top.path).entries
     IN  IF FsRaises("readdir", Top.path)
           THEN Reject
           ELSE Continue([Top EXCEPT !.items = [i \in 1..Len(entries) |-> entries[i].name],
                                     !.k = 1, !.pc = "loop"])
  /\ UNCHANGED <<calls, modelCalls, lastPrompt>>
  /\ SameInputs

\* the stat of an item that is a deny-listed directory: continue
RrsSkipDenied ==
  /\ ppc = "rrs"
  /\ Top.pc = "loop"
  /\ Top.k <= Len(Top.items)
  /\ LET itemPath == Append(Top.path, Top.items[Top.k])
     IN  /\ ~FsRaises("stat", itemPath)
         /\ ~EntryAt(itemPath).isFile
         /\ Top.items[Top.k] \in DenyList
         /\ accesses' = accesses \cup {Access("stat", itemPath)}
  /\ Continue([Top EXCEPT !.k = @ + 1])
  /\ UNCHANGED <<calls, modelCalls, lastPrompt>>
  /\ SameInputs

\* the stat of any other item, and rrs(itemPath, lens, depth + 1, ...) is called;
\* a stat that raises ends the loop and the run
RrsRecurse ==
  /\ ppc = "rrs"
  /\ Top.pc = "loop"
  /\ Top.k <= Len(Top.items)
  /\ LET itemPath == Append(Top.path, Top.items[Top.k])
     IN  /\ \/ FsRaises("stat", itemPath)
            \/ ~(~EntryAt(itemPath).isFile /\ Top.items[Top.k] \in DenyList)
         /\ accesses' = accesses \cup {Access("stat", itemPath)}
         /\ IF FsRaises("stat", itemPath)
              THEN Reject
              ELSE /\ stack' = [stack EXCEPT ![Len(stack)].pc = "await"]
                                 \o <<Frame(itemPath, Top.depth + 1)>>
                   /\ UNCHANGED <<summaries, keys, ppc>>
  /\ UNCHANGED <<calls, modelCalls, lastPrompt>>
  /\ SameInputs

\* after the loop no child is left by the filter
RrsEmptyFolder ==
  /\ ppc = "rrs"
  /\ Top.pc = "loop"
  /\ Top.k > Len(Top.items)
  /\ Len(FilterChildren(Top.children)) = 0
  /\ Deliver(SummaryNode(EmptyFolder, <<>>, Top.path, "folder"))
  /\ UNCHANGED <<accesses, calls, modelCalls, lastPrompt>>
  /\ SameInputs

\* after the loop the filtered children are aggregated into the folder node
RrsAggregate ==
  /\ ppc = "rrs"
  /\ Top.pc = "loop"
  /\ Top.k > Len(Top.items)
  /\ LET filteredChildren == FilterChildren(Top.children)
     IN  /\ Len(filteredChildren) # 0
         /\ lastPrompt' = AggregatePrompt(filteredChildren, Lens)
         /\ \E o \in OracleChoices(SummaryOutcomes, AggregatePrompt(filteredChildren, Lens)) :
              LET r == callLLM(o)
              IN  /\ calls' = calls \cup {Call("aggregate", Top.path, o.raised)}
                  /\ modelCalls' = modelCalls + Attempts(o)
                  /\ IF r.threw THEN Reject
                     ELSE Deliver(SummaryNode(r.text, filteredChildren, Top.path, "folder"))
  /\ UNCHANGED accesses
  /\ SameInputs

Next ==
  \/ PrrsStart
  \/ PrrsNextLens
  \/ PrrsReturn
  \/ RrsDepthLimit
  \/ RrsStat
  \/ RrsSkipFile
  \/ RrsReadFile
  \/ RrsSplitFile
  \/ RrsRankFile
  \/ RrsSummarizeFile
  \/ RrsReadDir
  \/ RrsSkipDenied
  \/ RrsRecurse
  \/ RrsEmptyFolder
  \/ RrsAggregate

Spec == PrrsInit /\ [][Next]_vars

(***************************************************************************)
(* Properties of the Chunker.                                              *)
(***************************************************************************)
\* the characters of a text that are not white space, in order
NonSpace(s) == SelectSeq(s, LAMBDA c : c \notin WhiteSpace)

\* the concatenation of a list of texts
RECURSIVE Flatten(_)
Flatten(list) == IF list = <<>> THEN <<>> ELSE list[1] \o Flatten(Tail(list))

\* C1: every chunk returned by splitFileIntoChunks has length <= maxChunkChars,
\* on the structural path and on the fallback path, also after bucket grouping.
C1_ChunkSizeBound ==
  cpc = "done" => \A i \in 1..Len(result) : Len(result[i]) <= maxChunkChars

\* C8: splitFileIntoChunks returns at most maxChunks chunks, on both paths.
C8_ChunkCountBound ==
  cpc = "done" => Len(result) <= maxChunks

\* more candidates than maxChunks were produced on the fallback path and grouped
\* into exactly maxChunks buckets
C8_Witness ==
  /\ cpc = "done"
  /\ cpath = "fallback"
  /\ Len(chunks) > maxChunks
  /\ maxChunks > 1
  /\ Len(result) = maxChunks

\* C9: every chunk returned by splitFileIntoChunks is trimmed and non-empty.
C9_ChunksTrimmedNonEmpty ==
  cpc = "done" =>
    \A i \in 1..Len(result) : result[i] # <<>> /\ Trim(result[i]) = result[i]

\* the fallback returned chunks although one of its candidates was blank or untrimmed
C9_Witness ==
  /\ cpc = "done"
  /\ cpath = "fallback"
  /\ result # <<>>
  /\ \E i \in 1..Len(chunks) : chunks[i] # <<>> /\ Trim(chunks[i]) # chunks[i]
  /\ \E i \in 1..Len(chunks) : IsBlank(chunks[i])

\* C10: the returned chunks cover the input in source order: apart from white
\* space, their concatenation is the input (nothing dropped, duplicated, reordered).
C10_ChunksCoverInput ==
  cpc = "done" => NonSpace(Flatten(result)) = NonSpace(fileContent)

(***************************************************************************)
(* Properties of the Ranker.                                               *)
(***************************************************************************)
\* C3: every RankedChunk returned by rankChunksByImportance, in any tier, has a
\* chunk that is one of the input chunks: never undefined, never text of the reply.
C3_ChunkIsInputChunk ==
  rpc = "done" =>
    \A k \in 1..Len(ranked) :
      /\ ranked[k].chunk.ty = "string"
      /\ \E i \in 1..Len(rchunks) : ranked[k].chunk.s = rchunks[i]

\* C4: in tiers 1 and 2 an accepted element whose index is the integer i resolves
\* to chunks[max(0, min(n - 1, i))], for n input chunks.
C4_IntegerIndexClamped ==
  (rpc = "done" /\ tier \in {1, 2}) =>
    /\ Len(ranked) = Len(accepted)
    /\ \A k \in 1..Len(accepted) :
         LET v == ToNumber(accepted[k].index)
         IN  (v.ty = "number" /\ v.h % 2 = 0) =>
               ranked[k].chunk =
                 JsStr(rchunks[Max2(0, Min2(Len(rchunks) - 1, v.h \div 2)) + 1])

\* tier 2 resolved a negative index and a too large index, for two chunks
C4_Witness ==
  /\ rpc = "done"
  /\ tier = 2
  /\ Len(rchunks) = 2
  /\ Len(ranked) = 2
  /\ accepted[1].index = JsInt(-1)
  /\ ranked[1].chunk = JsStr(rchunks[1])
  /\ accepted[2].index = JsInt(7)
  /\ ranked[2].chunk = JsStr(rchunks[2])

\* C5: for a non-empty list of chunks rankChunksByImportance returns at least one
\* RankedChunk, whatever the reply.
C5_AtLeastOneRanked ==
  (rpc = "done" /\ rchunks # <<>>) => Len(ranked) >= 1

(***************************************************************************)
(* Properties of the Traversal Engine.                                     *)
(***************************************************************************)
DepthLimitNode == SummaryNode(DepthLimitReached, <<>>, NoPath, NoType)

\* the results of the rrs calls that have returned and are still held: the root
\* nodes in the mapping (depth 0) and the child results of the calls in progress
ReturnedNodes ==
  {[node |-> summaries[l], depth |-> 0, lens |-> l] : l \in DOMAIN summaries}
    \cup UNION { {[node |-> stack[i].children[k], depth |-> stack[i].depth + 1,
                   lens |-> Lens] : k \in 1..Len(stack[i].children)} :
                 i \in 1..Len(stack) }

\* a node and every node below it
RECURSIVE NodesOf(_)
NodesOf(node) ==
  {node} \cup UNION {NodesOf(node.children[k]) : k \in 1..Len(node.children)}

\* the line of an aggregation prompt is the line of a skipped child
IsSkipLine(line) ==
  \E i \in 1..(Len(line) - 1) :
    /\ SubSeq(line, i, i + 1) = <<":", " ">>
    /\ StartsWith(SliceFrom(line, i + 1), SkipSentinel)

\* the names of the files of a tree that have no source extension
RECURSIVE NonSourceNames(_)
NonSourceNames(entry) ==
  (IF entry.isFile /\ ~IsSourceExt(ExtName(<<entry.name>>)) THEN {entry.name} ELSE {})
    \cup UNION {NonSourceNames(entry.entries[k]) : k \in 1..Len(entry.entries)}

\* C2: at every level of every tree returned by rrs, no folder node's children
\* holds a node whose summary is the skip sentinel, and no line of a folder's
\* aggregation prompt stands for a skipped child.
C2_NoSkippedChild ==
  /\ \A r \in ReturnedNodes : \A n \in NodesOf(r.node) :
       \A k \in 1..Len(n.children) : n.children[k].summary # SkipSentinel
  /\ lastPrompt.kind = "aggregate" =>
       \A i \in 1..Len(lastPrompt.lines) :
         /\ ~IsSkipLine(lastPrompt.lines[i])
         /\ \A name \in NonSourceNames(fsRoot) :
              ~StartsWith(lastPrompt.lines[i], name \o <<":", " ">>)

\* a folder below the root holding a skipped file and a summarized file was
\* aggregated: its prompt has one line, its node one child, the summarized file
C2_Witness ==
  /\ ppc = "done"
  /\ Len(lenses) = 1
  /\ maxDepth = 2
  /\ fsRoot.entries =
       <<DirEntry(SubName, <<FileEntry(EnvName, EnvText), FileEntry(TsName, CodeText)>>)>>
  /\ LET root == summaries[lenses[1]]
     IN  /\ Len(root.children) = 1
         /\ root.children[1].type = "folder"
         /\ Len(root.children[1].children) = 1
         /\ root.children[1].children[1].path = <<RootName, SubName, TsName>>

\* the paths rrs goes on to stat: the entries within the depth limit that are not
\* below a deny-listed directory
RECURSIVE Visited(_, _)
Visited(entry, path) ==
  IF DepthOf(path) > maxDepth THEN {}
  ELSE {path} \cup
       UNION { IF ~entry.entries[k].isFile /\ entry.entries[k].name \in DenyList THEN {}
               ELSE Visited(entry.entries[k], Append(path, entry.entries[k].name)) :
               k \in 1..Len(entry.entries) }

\* the visited files that are summarized, and the visited folders that are aggregated
SummarizedPaths ==
  {p \in Visited(fsRoot, RootPath) :
     /\ EntryAt(p).isFile
     /\ IsSourceExt(ExtName(p))
     /\ ~IsBlank(EntryAt(p).content)}

AggregatedPaths ==
  {p \in Visited(fsRoot, RootPath) :
     /\ ~EntryAt(p).isFile
     /\ \E k \in 1..Len(EntryAt(p).entries) :
          LET e == EntryAt(p).entries[k]
          IN  /\ ~(~e.isFile /\ e.name \in DenyList)
              /\ \/ DepthOf(p) + 1 > maxDepth
                 \/ ~(e.isFile /\ ~IsSourceExt(ExtName(<<e.name>>)))}

\* C6: a raise of the model oracle never leaves the core: prrs is never rejected;
\* a node whose summarize or aggregate call raised has 'Error in summarization'
\* as its summary; and when prrs returns, every lens has its root node and every
\* file and folder within the depth limit had its model calls, whichever raised.
C6_OracleFailureContained ==
  /\ ppc # "rejected"
  /\ \A r \in ReturnedNodes : \A n \in NodesOf(r.node) : \A c \in calls :
       (/\ c.raised
        /\ c.kind \in {"summarize", "aggregate"}
        /\ c.path = n.path
        /\ c.lens = r.lens) => n.summary = ErrorSentinel
  /\ ppc = "done" =>
       /\ DOMAIN summaries = {lenses[i] : i \in 1..Len(lenses)}
       /\ \A i \in 1..Len(lenses) :
            /\ \A p \in SummarizedPaths : \A kind \in {"rank", "summarize"} :
                 \E c \in calls : c.kind = kind /\ c.path = p /\ c.lens = lenses[i]
            /\ \A p \in AggregatedPaths :
                 \E c \in calls : c.kind = "aggregate" /\ c.path = p /\ c.lens = lenses[i]

\* with two lenses and two source files: in the first lens the rank call and the
\* summarize call of the first file and the aggregate call of the folder raised,
\* the second file was summarized all the same, and so was the second lens
C6_Witness ==
  /\ ppc = "done"
  /\ Len(lenses) = 2
  /\ fsRoot.entries = <<FileEntry(TsName, CodeText), FileEntry(JsName, CodeText)>>
  /\ Call("rank", <<RootName, TsName>>, TRUE) \in calls
  /\ LET first  == summaries[lenses[1]]
         second == summaries[lenses[2]]
     IN  /\ first.summary = ErrorSentinel
         /\ Len(first.children) = 2
         /\ first.children[1].summary = ErrorSentinel
         /\ first.children[2].summary = Trim(SummaryText)
         /\ second.summary = Trim(SummaryText)
         /\ second.children[1].summary = Trim(SummaryText)

\* C7: an rrs call with depth > maxDepth returns the depth-limit node without
\* file-system access or model call, for a file and for a folder: no directory
\* deeper than maxDepth is listed, no file deeper than maxDepth is read, no model
\* call is made for a deeper path, and every node deeper than maxDepth is the
\* depth-limit node, which has no children.
C7_DepthLimit ==
  /\ \A a \in accesses :
       /\ DepthOf(a.path) <= maxDepth + 1
       /\ a.op \in {"readdir", "readFile"} => DepthOf(a.path) <= maxDepth
  /\ \A c \in calls : DepthOf(c.path) <= maxDepth
  /\ \A i \in 1..Len(stack) :
       /\ stack[i].depth = i - 1
       /\ DepthOf(stack[i].path) = stack[i].depth
       /\ stack[i].depth > maxDepth => stack[i].pc = "enter" /\ i = maxDepth + 2
  /\ \A r \in ReturnedNodes :
       LET RECURSIVE Limited(_, _)
           Limited(node, d) ==
             /\ d > maxDepth => node = DepthLimitNode
             /\ \A k \in 1..Len(node.children) : Limited(node.children[k], d + 1)
       IN  Limited(r.node, r.depth)

\* maxDepth = 0 on a tree three levels deep: only the root directory was listed,
\* and the root node's one child is the depth-limit node
C7_Witness ==
  /\ ppc = "done"
  /\ maxDepth = 0
  /\ Len(lenses) >= 1
  /\ EntryHeight(fsRoot) = 3
  /\ {a \in accesses : a.op # "stat"} = {Access("readdir", RootPath)}
  /\ {a.path : a \in accesses} = {RootPath, <<RootName, SubName>>}
  /\ summaries[lenses[1]].children = <<DepthLimitNode>>

(***************************************************************************)
(* The folder rules of rrs: one folder, at the root path or one level      *)
(* below it, holding up to MaxFolderEntries of these entries in listing    *)
(* order: the three deny-listed directories (each with a source file in    *)
(* it), files without a source extension, source files, and an empty       *)
(* directory.  One lens, every maxDepth up to MaxMaxDepth.                 *)
(***************************************************************************)
MaxFolderEntries == 3

NodeModulesName == <<"n","o","d","e","_","m","o","d","u","l","e","s">>

GitName == <<".","g","i","t">>

DotEnvName == <<".","e","n","v">>

TsxName == <<"x",".","t","s","x">>

JsonName == <<"d",".","j","s","o","n">>

LibName == <<"l","i","b">>

FolderVocab ==
  << DirEntry(NodeModulesName, <<FileEntry(TsName, CodeText)>>),
     DirEntry(GitName, <<FileEntry(TsName, CodeText)>>),
     DirEntry(DistName, <<FileEntry(TsName, CodeText)>>),
     FileEntry(EnvName, EnvText),
     FileEntry(DotEnvName, EnvText),
     FileEntry(TsxName, CodeText),
     FileEntry(TsName, CodeText),
     FileEntry(JsName, CodeText),
     FileEntry(JsonName, BlankText),
     DirEntry(LibName, <<>>) >>

\* the listings: up to MaxFolderEntries entries of the vocabulary, in its order
FolderListings ==
  { [i \in 1..Len(SortedSeq(S)) |-> FolderVocab[SortedSeq(S)[i]]] :
      S \in {T \in SUBSET (1..Len(FolderVocab)) : Cardinality(T) <= MaxFolderEntries} }

FolderTrees ==
  {DirEntry(RootName, l) : l \in FolderListings}
    \cup {DirEntry(RootName, <<DirEntry(SubName, l)>>) : l \in FolderListings}

\* prrs before its first step, whatever its inputs
PrrsReady ==
  /\ rrsMaxChunkChars = 0
  /\ lensIdx = 0
  /\ summaries = NoSummaries
  /\ stack = <<>>
  /\ ppc = "start"
  /\ accesses = {}
  /\ calls = {}
  /\ modelCalls = 0
  /\ lastPrompt = NoPrompt
  /\ keys = <<>>
  /\ ChunkerIdle
  /\ RankerIdle
  /\ EstimatorIdle
  /\ SummarizerIdle
  /\ SplitterIdle

FolderInit ==
  /\ fsRoot \in FolderTrees
  /\ lenses = <<"architecture">>
  /\ maxDepth \in 0..MaxMaxDepth
  /\ faults = {}
  /\ oracle = FreeOracle
  /\ PrrsReady

FolderSpec == FolderInit /\ [][Next]_vars

(***************************************************************************)
(* Properties of the folder rules.                                         *)
(***************************************************************************)
\* the names of the version-control, dependency and build-output directories
IgnoredDirNames == {NodeModulesName, GitName, DistName}

\* the path names a directory all of whose entries (if any) are such directories
IgnoredOnly(path) ==
  /\ ~EntryAt(path).isFile
  /\ \A k \in 1..Len(EntryAt(path).entries) :
       /\ ~EntryAt(path).entries[k].isFile
       /\ EntryAt(path).entries[k].name \in IgnoredDirNames

\* the folders rrs processes: the directories within the depth limit that are not
\* failed by a name of the deny list on the way
ProcessedFolders == {p \in Visited(fsRoot, RootPath) : ~EntryAt(p).isFile}

\* C11: a directory processed within the depth limit whose entries are all
\* deny-listed directories, or that has none, gets the node 'Empty folder (ignored
\* items only)' without children and without a model call; nothing is listed,
\* read or called at or below a deny-listed directory.
C11_IgnoredOnlyFolder ==
  /\ \A r \in ReturnedNodes : \A n \in NodesOf(r.node) :
       (n.type = "folder" /\ IgnoredOnly(n.path)) =>
         n = SummaryNode(EmptyFolder, <<>>, n.path, "folder")
  /\ \A c \in calls : ~IgnoredOnly(c.path)
  /\ \A a \in accesses : \A i \in 2..Len(a.path) :
       (a.path[i] \in IgnoredDirNames /\ ~EntryAt(SubSeq(a.path, 1, i)).isFile) =>
         (i = Len(a.path) /\ a.op = "stat")
  /\ \A i \in 1..Len(stack) :
       ~(BaseName(stack[i].path) \in IgnoredDirNames /\ ~EntryAt(stack[i].path).isFile)
  /\ ppc = "done" =>
       \A p \in ProcessedFolders : IgnoredOnly(p) =>
         SummaryNode(EmptyFolder, <<>>, p, "folder") \in NodesOf(summaries[lenses[1]])

\* a folder below the root holds the three deny-listed directories and nothing
\* else: its node is the empty-folder node, and the one model call is the root's
C11_Witness ==
  /\ ppc = "done"
  /\ maxDepth = 1
  /\ fsRoot.entries = <<DirEntry(SubName, SubSeq(FolderVocab, 1, 3))>>
  /\ summaries[lenses[1]].children =
       <<SummaryNode(EmptyFolder, <<>>, <<RootName, SubName>>, "folder")>>
  /\ {c.path : c \in calls} = {RootPath}
  /\ {a \in accesses : a.op = "readdir"} =
       {Access("readdir", RootPath), Access("readdir", <<RootName, SubName>>)}

\* the files of the vocabulary whose extension is not .ts, .js, .py or .json
NonSourceFiles == {EnvName, DotEnvName, TsxName}

IsNonSourceFile(entry) == entry.isFile /\ entry.name \in NonSourceFiles

\* the entries an rrs call was made for so far by a folder loop: those before the
\* loop index that are not deny-listed directories, in listing order
CalledItems(f) ==
  SelectSeq(SubSeq(f.items, 1, Min2(f.k - 1, Len(f.items))),
            LAMBDA name : ~(name \in IgnoredDirNames
                            /\ ~EntryAt(Append(f.path, name)).isFile))

\* for every folder processed at a depth d with d + margin <= maxDepth: the rrs
\* call of each entry that is a file without source extension returns the skip
\* node; the folder's node has no child for such an entry; and a folder with only
\* such entries gets the empty-folder node
SkipRule(margin) ==
  /\ \A i \in 1..Len(stack) :
       (stack[i].depth + margin <= maxDepth /\ stack[i].pc \in {"loop", "await"}) =>
         /\ Len(stack[i].children) = Len(CalledItems(stack[i]))
         /\ \A j \in 1..Len(stack[i].children) :
              IsNonSourceFile(EntryAt(Append(stack[i].path, CalledItems(stack[i])[j]))) =>
                stack[i].children[j] =
                  SummaryNode(SkipSentinel, <<>>,
                              Append(stack[i].path, CalledItems(stack[i])[j]), "file")
  /\ \A r \in ReturnedNodes : \A n \in NodesOf(r.node) :
       (n.type = "folder" /\ DepthOf(n.path) + margin <= maxDepth) =>
         LET entries == EntryAt(n.path).entries
         IN  /\ \A k \in 1..Len(entries) : IsNonSourceFile(entries[k]) =>
                  \A j \in 1..Len(n.children) :
                    n.children[j].path # Append(n.path, entries[k].name)
             /\ (entries # <<>> /\ \A k \in 1..Len(entries) : IsNonSourceFile(entries[k]))
                  => n = SummaryNode(EmptyFolder, <<>>, n.path, "folder")

\* C12 as stated: the rule for every folder at a depth d <= maxDepth, d = maxDepth
\* included.
C12_SkippedAtEveryDepth == SkipRule(0)

\* C12 amended: the rule for every folder at a depth d < maxDepth, whose entries
\* are within the depth limit.
C12_SkippedBelowLimit == SkipRule(1)

\* a folder below the depth limit holds two files without source extension and a
\* source file: its node has one child, the source file
C12_Witness ==
  /\ ppc = "done"
  /\ maxDepth = 1
  /\ fsRoot.entries = <<FolderVocab[4], FolderVocab[6], FolderVocab[7]>>
  /\ Len(summaries[lenses[1]].children) = 1
  /\ summaries[lenses[1]].children[1].path = <<RootName, TsName>>
  /\ Access("readFile", <<RootName, TsName>>) \in accesses
  /\ Access("readFile", <<RootName, TsxName>>) \notin accesses


(***************************************************************************)
(* Properties of the Ranker's fallback tiers.                              *)
(***************************************************************************)
\* the element lists a reply can embed in prose: one or more objects, each with a
\* numeric index and a numeric score
NumericElemLists ==
  {es \in ElemLists :
     /\ Len(es) >= 1
     /\ \A k \in 1..Len(es) :
          /\ ~es[k].isNull
          /\ TypeOf(es[k].index) = "number"
          /\ TypeOf(es[k].score) = "number"}

\* the reply callLLM gives for the list embedded in prose
EmbeddedReply(es) == Trim(ProseBefore \o ArrayText(es) \o ProseAfter)

\* C13: for a reply that is prose around one bracketed array of k >= 1 elements,
\* each with a numeric index and score, the ranking comes from tier 2 and has
\* exactly k entries in reply order, each with chunk = chunks[clamped index], the
\* score given and the reason given.
C13_EmbeddedArrayRecovered ==
  rpc = "done" =>
    \A es \in NumericElemLists :
      response = EmbeddedReply(es) =>
        /\ tier = 2
        /\ Len(ranked) = Len(es)
        /\ \A k \in 1..Len(es) :
             /\ ranked[k].chunk = ChunkAt(rchunks, ClampIndex(Len(rchunks), es[k].index))
             /\ ranked[k].score = es[k].score
             /\ es[k].reason.ty = "string" => ranked[k].reason = es[k].reason

\* neither tier accepts the reply: the trimmed reply is not a JSON array whose
\* elements all have a numeric index and score, and the first bracketed substring,
\* if there is one, does not parse as an array
NoArrayInReply(reply) ==
  LET whole      == JSONParse(Trim(reply))
      arrayMatch == MatchFirstArray(reply)
      inner      == JSONParse(arrayMatch.text)
  IN  /\ ~(/\ whole.ok
           /\ whole.isArray
           /\ \A k \in 1..Len(whole.elems) :
                /\ ~whole.elems[k].isNull
                /\ TypeOf(whole.elems[k].index) = "number"
                /\ TypeOf(whole.elems[k].score) = "number")
      /\ ~(arrayMatch.found /\ inner.ok /\ inner.isArray)

\* C14: when the reply neither parses as an accepted array nor contains a parsable
\* bracketed array (the error sentinel of a failed call included), the ranking is the
\* first min(10, n) input chunks in their order, each with score 5 and the reason
\* 'Default ranking (parse failed)'; the call itself never rejects.
C14_DefaultRanking ==
  /\ rpc # "rejected"
  /\ (rpc = "done" /\ NoArrayInReply(response)) =>
       /\ Len(ranked) = (IF Len(rchunks) < 10 THEN Len(rchunks) ELSE 10)
       /\ \A k \in 1..Len(ranked) :
            /\ ranked[k].chunk = JsStr(rchunks[k])
            /\ ranked[k].score = JsInt(5)
            /\ ranked[k].reason =
                 JsStr(<<"D","e","f","a","u","l","t"," ","r","a","n","k","i","n","g"," ",
                         "(","p","a","r","s","e"," ","f","a","i","l","e","d",")">>)

\* the model call failed on a file of eleven chunks and the first ten came back
C14_Witness ==
  /\ rpc = "done"
  /\ response = ErrorSentinel
  /\ Len(rchunks) = 11
  /\ Len(ranked) = 10
  /\ tier = 3


(***************************************************************************)
(* The Traversal Engine on a file system that fails: prrs for one or two   *)
(* lenses over a few trees, where one operation (a stat, a readdir or a    *)
(* readFile of one path) raises during the traversal of one of the lenses, *)
(* or none does.                                                           *)
(***************************************************************************)
FaultTrees ==
  { DirEntry(RootName, << FileEntry(TsName, CodeText),
                          FileEntry(EnvName, EnvText),
                          DirEntry(DistName, <<FileEntry(TsName, CodeText)>>),
                          DirEntry(SubName, <<FileEntry(JsName, BlankText)>>) >>),
    DirEntry(RootName, << DirEntry(SubName, <<>>), FileEntry(JsName, CodeText) >>),
    FileEntry(TsName, CodeText) }

\* the paths of a tree, the root path first
RECURSIVE PathsBelow(_, _)
PathsBelow(entry, path) ==
  {path} \cup UNION {PathsBelow(entry.entries[k], Append(path, entry.entries[k].name)) :
                      k \in 1..Len(entry.entries)}

\* the operations the traversal of lens number i can attempt on a tree
FaultPoints(root, i) ==
  {[op |-> op, path |-> p, at |-> i] :
     op \in {"stat", "readdir", "readFile"}, p \in PathsBelow(root, <<root.name>>)}

\* one lens, and two: a failure in the second comes after the first has completed
FaultLenses == {<<"architecture">>, <<"architecture", "security">>}

FaultInit ==
  /\ fsRoot \in FaultTrees
  /\ lenses \in FaultLenses
  /\ maxDepth \in 0..MaxMaxDepth
  /\ faults \in {{}} \cup {{f} : f \in UNION {FaultPoints(fsRoot, i) : i \in 1..Len(lenses)}}
  /\ oracle = FreeOracle
  /\ PrrsReady

FaultSpec == FaultInit /\ [][Next]_vars

(***************************************************************************)
(* Properties of the traversal on a file system that fails.                *)
(***************************************************************************)
\* C18: when only reads of file content raise, rrs does not fail: the run is never
\* rejected, and it ends with one tree for each lens.
C18_UnreadableFileTolerated ==
  (\A f \in faults : f.op = "readFile") =>
    /\ ppc # "rejected"
    /\ ppc = "done" => DOMAIN summaries = {lenses[i] : i \in 1..Len(lenses)}

\* the stat and readdir operations that have raised
RaisedAccesses == {f \in faults \cap accesses : f.op \in {"stat", "readdir"}}

\* C19: once a stat or a readdir has raised, prrs is rejected and every rrs call has
\* been left: no mapping is returned, whatever lenses had completed, and the lens of
\* the failure has no node for the failing entry.
C19_Rejected ==
  \A f \in RaisedAccesses :
    /\ ppc = "rejected"
    /\ stack = <<>>
    /\ lenses[f.at] \notin DOMAIN summaries
    /\ \A l \in DOMAIN summaries : \E i \in 1..(f.at - 1) : lenses[i] = l

\* C19: a rejected run stays rejected and makes no further file-system or model call
C19_NothingAfterFailure ==
  ppc = "rejected" => (ppc' = "rejected" /\ accesses' = accesses /\ calls' = calls)

\* C19: a stat or readdir that raises propagates through every enclosing rrs call and
\* rejects prrs; nothing is called afterwards and no mapping is returned.
C19_FsErrorPropagates == [](C19_Rejected) /\ [][C19_NothingAfterFailure]_vars

\* the readdir of the sub folder raised in the second lens's traversal, three calls
\* deep, after the first lens's tree was complete
C19_Witness ==
  /\ ppc = "rejected"
  /\ faults = {[op |-> "readdir", path |-> <<RootName, SubName>>, at |-> 2]}
  /\ faults \subseteq accesses
  /\ DOMAIN summaries = {lenses[1]}
  /\ Len(lenses) = 2


(***************************************************************************)
(* The lens loop of prrs: every list of up to MaxLenses lenses, repeated   *)
(* and integer-like names included, over a few trees, with a model and a   *)
(* parser that are fixed functions of what they are given.                 *)
(***************************************************************************)
\* the largest array index looked for among the keys of an object
MaxIndexKey == 3

LensVocab == {"architecture", "2", "1"}

LensRequests == UNION {[1..n -> LensVocab] : n \in 0..MaxLenses}

FixedOracles ==
  {[free |-> FALSE, raises |-> r, patience |-> p, parser |-> q] :
     r \in { {},
             {[kind |-> "rank", lens |-> "architecture"]},
             {[kind |-> "aggregate", lens |-> "2"]} },
     p \in {1, 5},
     q \in {"throws", "nodes"}}

LensInit ==
  /\ fsRoot \in FaultTrees
  /\ lenses \in LensRequests
  /\ maxDepth \in 0..MaxMaxDepth
  /\ faults = {}
  /\ oracle \in FixedOracles
  /\ PrrsReady

LensSpec == LensInit /\ [][Next]_vars

\* the array index a property key stands for, or -1: the key is the canonical
\* decimal numeral of an integer
KeyIndex(key) ==
  IF \E n \in 0..MaxIndexKey : ToString(n) = key
    THEN CHOOSE n \in 0..MaxIndexKey : ToString(n) = key
    ELSE -1

\* Object.keys / for...in / JSON.stringify of an object whose own keys were created
\* in this order: the integer keys in ascending order, then the others as created
ObjectKeys(created) ==
  LET indices == SortedSeq({KeyIndex(created[i]) : i \in 1..Len(created)} \ {-1})
  IN  [i \in 1..Len(indices) |-> ToString(indices[i])]
        \o SelectSeq(created, LAMBDA k : KeyIndex(k) = -1)

\* rrs as a function of the entry, for the fixed model and parser: the node it returns
RECURSIVE RrsNode(_, _, _, _)
RrsNode(entry, path, depth, lens) ==
  IF DepthExceeded(depth, maxDepth)
    THEN SummaryNode(DepthLimitReached, <<>>, NoPath, NoType)
  ELSE IF entry.isFile
    THEN IF ~IsSourceExt(ExtName(path))
           THEN SummaryNode(SkipSentinel, <<>>, path, "file")
         ELSE IF Trim(entry.content) = <<>>
           THEN SummaryNode(EmptyFile, <<>>, NoPath, NoType)
         ELSE LET fileChunks ==
                    splitFileIntoChunks(entry.content, RrsMaxChunks, rrsMaxChunkChars,
                                        FixedParse(oracle, entry.content))
                  rankReply ==
                    callLLM(OracleReply(oracle, RankPrompt(fileChunks, lens))).text
                  rankedChunks == rankChunksByImportance(fileChunks, rankReply)
              IN  IF Len(fileChunks) = 0
                    THEN SummaryNode(NoChunksExtracted, <<>>, NoPath, NoType)
                    ELSE SummaryNode(
                           callLLM(OracleReply(oracle,
                                               SummarizePrompt(rankedChunks, lens))).text,
                           <<>>, path, "file")
  ELSE LET visited  == SelectSeq(entry.entries,
                                 LAMBDA e : ~(~e.isFile /\ e.name \in DenyList))
           children == [k \in 1..Len(visited) |->
                          RrsNode(visited[k], Append(path, visited[k].name), depth + 1, lens)]
           filteredChildren == FilterChildren(children)
       IN  IF Len(filteredChildren) = 0
             THEN SummaryNode(EmptyFolder, <<>>, path, "folder")
             ELSE SummaryNode(
                    callLLM(OracleReply(oracle,
                                        AggregatePrompt(filteredChildren, lens))).text,
                    filteredChildren, path, "folder")

(***************************************************************************)
(* Properties of the lens loop.                                            *)
(***************************************************************************)
\* the requested lenses, and whether none is requested twice
RequestedLenses == {lenses[i] : i \in 1..Len(lenses)}

NoLensTwice == \A i, j \in 1..Len(lenses) : lenses[i] = lenses[j] => i = j

\* the traversal of every lens before lens number i has returned
EarlierLensesDone(i) == \A j \in 1..(i - 1) : lenses[j] \in DOMAIN summaries

\* C15: the mapping prrs returns has exactly one entry per requested lens, each the
\* root node of a traversal of the root path from depth 0 for that lens; a lens's
\* traversal makes no file-system or model call before the earlier ones have
\* returned; and the entries enumerate in request order.
C15_OnePerLensInOrder ==
  /\ \A a \in accesses : a.at <= lensIdx /\ EarlierLensesDone(a.at)
  /\ \A c \in calls : \E i \in 1..lensIdx : lenses[i] = c.lens /\ EarlierLensesDone(i)
  /\ ppc = "done" =>
       /\ DOMAIN summaries = RequestedLenses
       /\ \A l \in RequestedLenses : summaries[l] = RrsNode(fsRoot, RootPath, 0, l)
       /\ NoLensTwice => ObjectKeys(keys) = lenses

\* C16: the tree prrs holds for a lens is the tree of that lens alone, whatever other
\* lenses are requested with it and in whatever order: it is rrs applied to the root
\* for that lens, and at the end every requested lens has its tree.
C16_LensesIndependent ==
  /\ \A l \in DOMAIN summaries :
       l \in RequestedLenses /\ summaries[l] = RrsNode(fsRoot, RootPath, 0, l)
  /\ ppc = "done" => DOMAIN summaries = RequestedLenses

\* two lenses were requested, the second before the first in the vocabulary's order,
\* the model refused the ranking for one of them, and their trees differ
C16_Witness ==
  /\ ppc = "done"
  /\ lenses = <<"2", "architecture">>
  /\ oracle.raises = {[kind |-> "rank", lens |-> "architecture"]}
  /\ ~fsRoot.isFile
  /\ summaries["2"] # summaries["architecture"]
  /\ summaries["2"].children # <<>>
  /\ {c.lens : c \in calls} = {"2", "architecture"}


(***************************************************************************)
(* The estimator: estimateMaxChunkChars for no key, the keys of the static *)
(* table, keys it does not hold and keys every object inherits, and for    *)
(* every answer of the context-window discovery: a raise, a number         *)
(* (positive, zero or negative) or a value that is not a number.           *)
(***************************************************************************)
EstimateKeys ==
  {"", "g4f-reasoning", "g4f-no-reasoning", "gpt120-reasoning", "gpt120-no-reasoning",
   "other-model", "constructor", "toString"}

ContextValues == {-1, 0, 1, 1249, 1250, 1251, 4096, 8192, 128000}

ContextOutcomes ==
  {[raised |-> TRUE, isNumber |-> FALSE, value |-> 0],
   [raised |-> FALSE, isNumber |-> FALSE, value |-> 0]}
    \cup {[raised |-> FALSE, isNumber |-> TRUE, value |-> v] : v \in ContextValues}

EstimateInit ==
  /\ estKey \in EstimateKeys
  /\ estContext \in ContextOutcomes
  /\ estTokens = JsInt(DefaultTokens)
  /\ estQueried = FALSE
  /\ estChars = JsUndefined
  /\ estPc = "lookup"
  /\ ChunkerIdle
  /\ RankerIdle
  /\ PrrsIdle
  /\ SummarizerIdle
  /\ SplitterIdle

\* if (modelKey) { if (tokenWindowByModel[modelKey]) tokens = ...; else ... }
EstimateLookup ==
  /\ estPc = "lookup"
  /\ IF estKey = ""
       THEN estPc' = "return" /\ UNCHANGED estTokens
     ELSE IF Truthy(TokenWindowByModel(estKey))
       THEN estPc' = "return" /\ estTokens' = TokenWindowByModel(estKey)
     ELSE estPc' = "discover" /\ UNCHANGED estTokens
  /\ UNCHANGED <<estKey, estContext, estQueried, estChars>>
  /\ UNCHANGED <<chunkerVars, rankerVars, prrsVars, summarizerVars, splitterVars>>

\* try { const ctx = await getContext(modelKey); if (...) tokens = ctx } catch {}
EstimateDiscover ==
  /\ estPc = "discover"
  /\ estQueried' = TRUE
  /\ estTokens' = IF ContextUsable(estContext) THEN JsInt(estContext.value) ELSE estTokens
  /\ estPc' = "return"
  /\ UNCHANGED <<estKey, estContext, estChars>>
  /\ UNCHANGED <<chunkerVars, rankerVars, prrsVars, summarizerVars, splitterVars>>

\* return Math.max(1000, Math.floor(tokens * 4 * fraction))
EstimateReturn ==
  /\ estPc = "return"
  /\ estChars' = ApproxChars(estTokens)
  /\ estPc' = "done"
  /\ UNCHANGED <<estKey, estContext, estTokens, estQueried>>
  /\ UNCHANGED <<chunkerVars, rankerVars, prrsVars, summarizerVars, splitterVars>>

EstimateNext ==
  \/ EstimateLookup
  \/ EstimateDiscover
  \/ EstimateReturn

EstimateSpec == EstimateInit /\ [][EstimateNext]_vars

(***************************************************************************)
(* Properties of the estimator.                                            *)
(***************************************************************************)
\* C17: estimateMaxChunkChars returns an integer >= 1000 equal to
\* max(1000, floor(tokens * 4 / 5)), where tokens is 8192 for a key of the static
\* table (6553), else the discovered value when it is a positive number, else 4096
\* (3276); and the discovery is asked only for a key absent from the static table.
C17_BudgetFromTokens ==
  estPc = "done" =>
    LET discovered == /\ estKey # ""
                      /\ estKey \notin StaticModelKeys
                      /\ ~estContext.raised
                      /\ estContext.isNumber
                      /\ estContext.value > 0
        fourFifths == (estContext.value * 4) \div 5
    IN  /\ estChars.ty = "number"
        /\ estChars.h % 2 = 0
        /\ estChars.h \div 2 >= 1000
        /\ estKey \in StaticModelKeys => estChars = JsInt(6553)
        /\ discovered =>
             estChars = JsInt(IF fourFifths > 1000 THEN fourFifths ELSE 1000)
        /\ (estKey \notin StaticModelKeys /\ ~discovered) => estChars = JsInt(3276)
        /\ estQueried => estKey \notin StaticModelKeys


(***************************************************************************)
(* Properties of the nodes of a returned tree.                             *)
(***************************************************************************)
\* every node of the trees returned so far
AllReturnedNodes == UNION {NodesOf(r.node) : r \in ReturnedNodes}

\* the kind of the entry at a path
KindAt(path) == IF EntryAt(path).isFile THEN "file" ELSE "folder"

\* C21: every returned node other than the depth-limit node carries the path of its
\* entry and the kind of that entry; a file node has no children, and the children of
\* a folder node that carry a path are entries of that folder.
C21_NodesCarryPathAndKind ==
  \A n \in AllReturnedNodes :
    \/ n = DepthLimitNode
    \/ /\ n.path # NoPath
       /\ n.type = KindAt(n.path)
       /\ n.type = "file" => n.children = <<>>
       /\ \A k \in 1..Len(n.children) :
            n.children[k].path # NoPath =>
              /\ Len(n.children[k].path) = Len(n.path) + 1
              /\ SubSeq(n.children[k].path, 1, Len(n.path)) = n.path


(***************************************************************************)
(* Properties of the order of events in a traversal.                       *)
(***************************************************************************)
\* the model calls of a kind made for a path in the traversal of the current lens
CallsFor(kind, path) ==
  {c \in calls : c.kind = kind /\ c.path = path /\ c.lens = Lens}

\* item j of a folder's loop is passed over by the deny-list
ItemDenied(f, j) ==
  LET entry == EntryAt(Append(f.path, f.items[j]))
  IN  ~entry.isFile /\ entry.name \in DenyList

\* the rrs call in progress at level i of the stack is in its folder loop
InFolderLoop(i) == stack[i].pc \in {"loop", "await"}

\* C22: within one lens's traversal the events are totally ordered.  Only the
\* innermost rrs call acts, each call below it waits for the call of its current
\* entry; a folder loop has stat'ed exactly the entries up to the current one, in
\* listing order, and holds the results of those before it; a file is chunked before
\* its rank call and ranked before its summarize call; and a folder's aggregation
\* call is made only when no call for an entry below it is in progress.
C22_TotallyOrdered ==
  ppc = "rrs" =>
    /\ \A i \in 1..(Len(stack) - 1) :
         /\ stack[i].pc = "await"
         /\ stack[i + 1].path = Append(stack[i].path, stack[i].items[stack[i].k])
    /\ stack[Len(stack)].pc # "await"
    /\ \A i \in 1..Len(stack) : InFolderLoop(i) =>
         LET f == stack[i]
             entries == EntryAt(f.path).entries
         IN  /\ f.items = [j \in 1..Len(entries) |-> entries[j].name]
             /\ f.k \in 1..(Len(f.items) + 1)
             /\ \A j \in 1..Len(f.items) :
                  Access("stat", Append(f.path, f.items[j])) \in accesses
                    <=> (j < f.k \/ (j = f.k /\ f.pc = "await"))
             /\ Len(f.children) = Cardinality({j \in 1..(f.k - 1) : ~ItemDenied(f, j)})
             /\ CallsFor("aggregate", f.path) = {}
    /\ \A i \in 1..Len(stack) :
         LET f == stack[i]
         IN  /\ f.pc \in {"enter", "file", "folder", "split"} =>
                  /\ f.chunks = <<>>
                  /\ CallsFor("rank", f.path) = {}
                  /\ CallsFor("summarize", f.path) = {}
             /\ f.pc = "rank" =>
                  /\ f.chunks # <<>>
                  /\ CallsFor("rank", f.path) = {}
                  /\ CallsFor("summarize", f.path) = {}
             /\ f.pc = "summarize" =>
                  /\ Cardinality(CallsFor("rank", f.path)) = 1
                  /\ CallsFor("summarize", f.path) = {}
    /\ \A c \in calls :
         /\ c.kind = "summarize" => CallsFor("rank", c.path) # {}
         /\ c.kind = "aggregate" =>
              \A i \in 1..Len(stack) :
                ~(/\ Len(stack[i].path) > Len(c.path)
                  /\ SubSeq(stack[i].path, 1, Len(c.path)) = c.path)

\* the loop of the sub folder is at its third entry after both files before it were
\* ranked and summarized, while the root's loop waits
C22_Witness ==
  /\ ppc = "rrs"
  /\ Len(stack) = 2
  /\ stack[1].pc = "await"
  /\ stack[2].pc = "loop"
  /\ stack[2].items = <<TsName, JsName, LibName>>
  /\ stack[2].k = 3
  /\ Len(stack[2].children) = 2
  /\ {c.kind : c \in calls} = {"rank", "summarize"}
  /\ {c.path : c \in calls} =
       {<<RootName, SubName, TsName>>, <<RootName, SubName, JsName>>}


(***************************************************************************)
(* Properties of the number of model calls.                                *)
(***************************************************************************)
\* the traversal of the current lens has returned its root node
TraversalReturned == ppc \in {"lens", "done"} /\ lensIdx >= 1

\* C23: no model call is retried. When the traversal of a lens has returned, the
\* number of calls made of the model in it is twice the number of source files
\* with chunks within the depth limit plus the number of folders with a retained
\* child, whatever the model returned and whichever calls raised; during the
\* traversal it never exceeds that number; and every call is a rank or summarize
\* call of such a file or the aggregation call of such a folder, so that skipped
\* files, empty files, depth-limit nodes and empty folders have none.
C23_NoRetry ==
  LET expected == 2 * Cardinality(SummarizedPaths) + Cardinality(AggregatedPaths)
  IN  /\ modelCalls <= expected
      /\ TraversalReturned => modelCalls = expected
      /\ \A c \in calls :
           IF c.kind = "aggregate" THEN c.path \in AggregatedPaths
                                   ELSE c.path \in SummarizedPaths

\* a sub folder with a skipped file, a source file and an empty file, all within
\* the depth limit: four calls, two for the file and one for each folder, and the
\* rank call and the aggregation call of the sub folder raised
C23_Witness ==
  /\ ppc = "done"
  /\ maxDepth = 2
  /\ fsRoot = DirEntry(RootName, <<DirEntry(SubName,
                <<FileEntry(EnvName, EnvText), FileEntry(TsName, CodeText),
                  FileEntry(JsonName, BlankText)>>)>>)
  /\ modelCalls = 4
  /\ Call("rank", <<RootName, SubName, TsName>>, TRUE) \in calls
  /\ Call("aggregate", <<RootName, SubName>>, TRUE) \in calls
  /\ Call("aggregate", <<RootName>>, FALSE) \in calls


(***************************************************************************)
(* The traversal with a model whose summaries may begin like the skip      *)
(* sentinel.                                                               *)
(***************************************************************************)
\* a summary the model may return: a text that begins with the words rrs gives a
\* skipped file
EchoText == <<" ">> \o SkipSentinel \o <<" ", "x", NL>>

EchoingOracle == [FreeOracle EXCEPT !.echoes = {OracleReturns(EchoText)}]

ShapeInit ==
  /\ fsRoot \in FolderTrees
  /\ lenses = <<"architecture">>
  /\ maxDepth \in 0..MaxMaxDepth
  /\ faults = {}
  /\ oracle = EchoingOracle
  /\ PrrsReady

ShapeSpec == ShapeInit /\ [][Next]_vars

\* the innermost rrs call is a folder whose loop has ended
FolderLoopEnded ==
  /\ ppc = "rrs"
  /\ Top.pc = "loop"
  /\ Top.k > Len(Top.items)

\* the child results of the innermost call whose summary is not the skip sentinel
RetainedChildren == SelectSeq(Top.children, LAMBDA c : c.summary # SkipSentinel)

\* the node the innermost call has returned in this step, to prrs or to its caller
NodeReturned ==
  IF Len(stack) = 1
    THEN summaries'[Lens]
    ELSE stack'[Len(stack) - 1].children[Len(stack'[Len(stack) - 1].children)]

\* C24: when the loop of a folder has ended with at least one child result whose
\* summary is not the skip sentinel, the folder's step makes exactly one model
\* call, with one prompt line per such child, in listing order, made of the
\* child's basename and the first 100 characters of its summary; and it returns
\* the node whose children are exactly those child results, in listing order, and
\* whose summary is what callLLM gave for the call.
C24_FolderAggregation ==
  [][ (FolderLoopEnded /\ RetainedChildren # <<>>) =>
        /\ modelCalls' = modelCalls + 1
        /\ \E raised \in BOOLEAN : calls' = calls \cup {Call("aggregate", Top.path, raised)}
        /\ lastPrompt' = [kind  |-> "aggregate", lens |-> Lens,
                          lines |-> [i \in 1..Len(RetainedChildren) |->
                                       ChildLine(RetainedChildren[i])]]
        /\ NodeReturned.children = RetainedChildren
        /\ NodeReturned.path = Top.path
        /\ NodeReturned.type = "folder"
        /\ \E o \in SummaryOutcomes \cup oracle.echoes :
             /\ NodeReturned.summary = callLLM(o).text
             /\ Call("aggregate", Top.path, o.raised) \in calls'
    ]_vars


(***************************************************************************)
(* Properties of the shape of a returned tree.                             *)
(***************************************************************************)
\* the shape of a node: its path, its kind and the shapes of its children
RECURSIVE ShapeOf(_)
ShapeOf(node) ==
  [path |-> node.path, type |-> node.type,
   children |-> [k \in 1..Len(node.children) |-> ShapeOf(node.children[k])]]

ShapeLeaf(path, type) == [path |-> path, type |-> type, children |-> <<>>]

\* the entry is given a node by the non-source-extension branch when rrs is called
\* for it at the depth
SkippedAt(entry, depth) ==
  /\ depth <= maxDepth
  /\ entry.isFile
  /\ ~IsSourceExt(ExtName(<<entry.name>>))

\* the shape the file tree gives by itself: a leaf for a file and for an entry beyond
\* the depth limit, and for a folder one child per listed entry that is neither a
\* deny-listed directory nor a skipped file
RECURSIVE TreeShape(_, _, _)
TreeShape(entry, path, depth) ==
  IF depth > maxDepth THEN ShapeLeaf(NoPath, NoType)
  ELSE IF entry.isFile
    THEN IF ~SkippedAt(entry, depth) /\ IsBlank(entry.content)
           THEN ShapeLeaf(NoPath, NoType)
           ELSE ShapeLeaf(path, "file")
  ELSE LET kept == SelectSeq(entry.entries,
                             LAMBDA e : /\ ~(~e.isFile /\ e.name \in DenyList)
                                        /\ ~SkippedAt(e, depth + 1))
       IN  [path |-> path, type |-> "folder",
            children |-> [k \in 1..Len(kept) |->
                            TreeShape(kept[k], Append(path, kept[k].name), depth + 1)]]

\* C29: the shape of the tree rrs returns is the one the file tree gives by itself,
\* whatever the model returned and whichever of its calls raised: only the nodes of
\* the non-source-extension branch are missing from their parent's children.
C29_ShapeIndependentOfOracle ==
  \A l \in DOMAIN summaries : ShapeOf(summaries[l]) = TreeShape(fsRoot, RootPath, 0)


(***************************************************************************)
(* summarizeChunks over every ranked list of up to MaxRanked entries, each *)
(* a low-scored or a high-scored chunk, with a model that returns or       *)
(* raises.                                                                 *)
(***************************************************************************)
MaxRanked == 7

RankedVocab ==
  { [chunk |-> JsStr(<<"c", "1">>), score |-> JsInt(2), reason |-> JsStr(<<"l", "o">>)],
    [chunk |-> JsStr(<<"c", "2">>), score |-> JsInt(9), reason |-> JsStr(<<"h", "i">>)] }

RankedLists == UNION {[1..n -> RankedVocab] : n \in 0..MaxRanked}

SummarizerInit ==
  /\ sumRanked \in RankedLists
  /\ sumLens = "architecture"
  /\ sumPrompt = NoPrompt
  /\ sumCalls = 0
  /\ sumResult = Returned(<<>>)
  /\ sumPc = "build"
  /\ ChunkerIdle
  /\ RankerIdle
  /\ PrrsIdle
  /\ EstimatorIdle
  /\ SplitterIdle

\* const topChunks = rankedChunks.slice(0, 5).map(...).join('\n'); const prompt = ...
SummarizeBuild ==
  /\ sumPc = "build"
  /\ sumPrompt' = SummarizePrompt(sumRanked, sumLens)
  /\ sumPc' = "call"
  /\ UNCHANGED <<sumRanked, sumLens, sumCalls, sumResult>>
  /\ UNCHANGED <<chunkerVars, rankerVars, prrsVars, estimatorVars, splitterVars>>

\* return await callLLM(prompt, model)
SummarizeCall ==
  /\ sumPc = "call"
  /\ \E o \in SummaryOutcomes :
       /\ sumResult' = callLLM(o)
       /\ sumCalls' = sumCalls + Attempts(o)
       /\ sumPc' = IF callLLM(o).threw THEN "rejected" ELSE "done"
  /\ UNCHANGED <<sumRanked, sumLens, sumPrompt>>
  /\ UNCHANGED <<chunkerVars, rankerVars, prrsVars, estimatorVars, splitterVars>>

SummarizerNext ==
  \/ SummarizeBuild
  \/ SummarizeCall

SummarizerSpec == SummarizerInit /\ [][SummarizerNext]_vars

\* the first entries of a list, up to five
FirstFive(rankedChunks) == SubSeq(rankedChunks, 1, Min2(5, Len(rankedChunks)))

\* C25: the prompt of summarizeChunks is made of the first min(5, length) entries
\* of the list it is given, in the given order whatever their scores; a list that
\* differs only after its fifth entry gives the same prompt; one model call is
\* made, for the empty list too; and summarizeChunks returns the trimmed text of
\* the call or the error sentinel, and never throws.
C25_SummarizeTopFive ==
  /\ sumPc # "rejected"
  /\ sumPc \in {"call", "done"} =>
       /\ Len(sumPrompt.lines) = Len(FirstFive(sumRanked))
       /\ \A k \in 1..Len(sumPrompt.lines) : sumPrompt.lines[k] = TopChunkLine(sumRanked[k])
       /\ \A other \in RankedLists :
            FirstFive(other) = FirstFive(sumRanked) =>
              SummarizePrompt(other, sumLens) = sumPrompt
  /\ sumPc \in {"build", "call"} => sumCalls = 0
  /\ sumPc = "done" =>
       /\ sumCalls = 1
       /\ ~sumResult.threw
       /\ sumResult.text \in {Trim(SummaryText), ErrorSentinel}

\* seven entries with the low-scored chunk first and high-scored chunks after the
\* fifth: the prompt has five lines, the first for the low-scored chunk, and the
\* call raised
C25_Witness ==
  /\ sumPc = "done"
  /\ Len(sumRanked) = 7
  /\ sumRanked[1].score = JsInt(2)
  /\ sumRanked[2].score = JsInt(9)
  /\ sumRanked[6].score = JsInt(9)
  /\ Len(sumPrompt.lines) = 5
  /\ sumPrompt.lines[1] = TopChunkLine(sumRanked[1])
  /\ sumResult.text = ErrorSentinel


(***************************************************************************)
(* Properties of the parse tiers.                                          *)
(***************************************************************************)
\* the reply callLLM gives for the list as a bare array
BareReply(es) == Trim(ArrayText(es) \o <<NL>>)

\* the reply is the list, bare or embedded in prose
RepliedWith(es) == response \in {BareReply(es), EmbeddedReply(es)}

\* the elements of the list whose index is a number
WithNumericIndex(es) ==
  SelectSeq(es, LAMBDA e : ~e.isNull /\ TypeOf(e.index) = "number")

\* C26: when tier 2 returns, the ranking has one entry for each element of the
\* extracted array whose index is a number, in order, and none for an element whose
\* index is missing, null or otherwise not a number; the entry has the element's
\* score when that is a number and 5 when the element has no score, and it has the
\* element's reason when it has one and 'Extracted ranking' when it has none.
C26_Tier2NumericIndexOnly ==
  (rpc = "done" /\ tier = 2) =>
    \A es \in ElemLists :
      RepliedWith(es) =>
        LET kept == WithNumericIndex(es)
        IN  /\ Len(ranked) = Len(kept)
            /\ \A k \in 1..Len(kept) :
                 /\ TypeOf(kept[k].score) = "number" => ranked[k].score = kept[k].score
                 /\ kept[k].score = JsUndefined => ranked[k].score = JsInt(5)
                 /\ kept[k].reason.ty = "string" => ranked[k].reason = kept[k].reason
                 /\ kept[k].reason = JsUndefined =>
                      ranked[k].reason = JsStr(ExtractedRanking)

\* the text is an array of element literals: '[', the literals separated by commas, ']'
IsArrayText(text) ==
  /\ Len(text) >= 2
  /\ text[1] = "["
  /\ text[Len(text)] = "]"
  /\ Len(text) = 2 \/ Len(text) % 2 = 1
  /\ \A k \in 1..((Len(text) - 1) \div 2) :
       /\ text[2 * k] \in ElemLexemes
       /\ k > 1 => text[2 * k - 1] = ","

\* the elements of such a text, in order
ElemsOfArrayText(text) ==
  [k \in 1..((Len(text) - 1) \div 2) |-> ElemOfLex(text[2 * k])]

\* the reply without the prose around it, when it has the prose
WithoutProse(text) ==
  IF StartsWith(text, ProseBefore) /\ EndsWith(text, ProseAfter)
    THEN SubSeq(text, Len(ProseBefore) + 1, Len(text) - Len(ProseAfter))
    ELSE text

\* the whole trimmed reply is a JSON array whose elements all have a numeric index
\* and a numeric score
Tier1Reply ==
  /\ IsArrayText(response)
  /\ \A k \in 1..Len(ElemsOfArrayText(response)) :
       LET e == ElemsOfArrayText(response)[k]
       IN  /\ ~e.isNull
           /\ TypeOf(e.index) = "number"
           /\ TypeOf(e.score) = "number"

\* the first bracketed substring of the reply is a non-empty JSON array of objects
Tier2Reply ==
  /\ IsArrayText(WithoutProse(response))
  /\ Len(ElemsOfArrayText(WithoutProse(response))) >= 1
  /\ \A k \in 1..Len(ElemsOfArrayText(WithoutProse(response))) :
       ~ElemsOfArrayText(WithoutProse(response))[k].isNull

\* C27: the tiers are tried in order and the first that accepts returns. Tier 1
\* returns exactly when the whole trimmed reply is a JSON array whose elements all
\* have a numeric index and a numeric score, and its ranking has one entry per
\* element, in reply order, duplicates included; tier 2 is reached only when tier 1
\* rejected and returns exactly when it accepts; tier 3 is reached only when both
\* rejected; and nothing is returned before a tier accepts.
C27_TiersInOrder ==
  /\ rpc \in {"call", "tier1", "tier2", "tier3"} => (tier = 0 /\ ranked = <<>>)
  /\ rpc = "tier2" => ~Tier1Reply
  /\ rpc = "tier3" => (~Tier1Reply /\ ~Tier2Reply)
  /\ rpc = "done" =>
       /\ tier = 1 <=> Tier1Reply
       /\ tier = 2 <=> (~Tier1Reply /\ Tier2Reply)
       /\ tier = 3 <=> (~Tier1Reply /\ ~Tier2Reply)
       /\ tier = 1 =>
            LET es == ElemsOfArrayText(response)
            IN  /\ Len(ranked) = Len(es)
                /\ \A k \in 1..Len(es) :
                     /\ ranked[k].score = es[k].score
                     /\ ranked[k].chunk =
                          ChunkAt(rchunks, ClampIndex(Len(rchunks), es[k].index))

\* tier 1 returned two entries for a reply that names chunk 0 twice, out of two chunks
C27_Witness ==
  /\ rpc = "done"
  /\ tier = 1
  /\ Len(rchunks) = 2
  /\ response = BareReply(<<JsonObj(JsInt(0), JsInt(7), JsStr(<<"r">>), JsUndefined),
                            JsonObj(JsInt(0), JsInt(7), JsStr(<<"r">>), JsUndefined)>>)
  /\ Len(ranked) = 2
  /\ ranked[1] = ranked[2]
  /\ ranked[1].chunk = JsStr(rchunks[1])


(***************************************************************************)
(* splitTextBySize, one iteration of its loop at a time, over every text   *)
(* of up to MaxSplitLines lines that are blank, short or ten characters    *)
(* long with a statement end, for caps that a few such lines exceed.       *)
(***************************************************************************)
MaxSplitLines == 5

SplitLineVocab == { <<>>, <<"a">>, <<"a","a","a","a","a","a","a","a","a",";">> }

SplitTexts ==
  {Join(ls, <<NL>>) : ls \in UNION {[1..n -> SplitLineVocab] : n \in 1..MaxSplitLines}}

SplitCaps == {12, 15}

SplitterInit ==
  /\ spText \in SplitTexts
  /\ spMaxChars \in SplitCaps
  /\ spLines = <<>>
  /\ spK = 0
  /\ spState = [chunks |-> <<>>, cur |-> <<>>]
  /\ spBuffered = <<>>
  /\ spSplitPos = -1
  /\ spPc = "entry"
  /\ ChunkerIdle
  /\ RankerIdle
  /\ PrrsIdle
  /\ EstimatorIdle
  /\ SummarizerIdle

\* if (!text) return []; if (text.length <= maxChars) return [text.trim()];
\* const lines = text.split('\n')
SplitEnter ==
  /\ spPc = "entry"
  /\ IF spText = <<>> \/ Len(spText) <= spMaxChars
       THEN /\ spState' = [chunks |-> splitTextBySize(spText, spMaxChars), cur |-> <<>>]
            /\ spPc' = "done"
            /\ UNCHANGED spLines
       ELSE /\ spLines' = SplitLines(spText)
            /\ spPc' = "loop"
            /\ UNCHANGED spState
  /\ UNCHANGED <<spText, spMaxChars, spK, spBuffered, spSplitPos>>
  /\ UNCHANGED <<chunkerVars, rankerVars, prrsVars, estimatorVars, summarizerVars>>

\* one iteration of for (const rawLine of lines), with the split point it used
SplitIterate ==
  /\ spPc = "loop"
  /\ spK < Len(spLines)
  /\ LET line     == spLines[spK + 1]
         splitPos == FindSplitPos(spState.cur, 1, -1)
     IN  /\ spState' = SplitStep(spState, line, spMaxChars)
         /\ spBuffered' = spState.cur
         /\ spSplitPos' = IF /\ Len(spState.cur) + 1 + Len(line) > spMaxChars
                             /\ splitPos > MinSplitOffset
                            THEN splitPos ELSE -1
  /\ spK' = spK + 1
  /\ UNCHANGED <<spText, spLines, spMaxChars, spPc>>
  /\ UNCHANGED <<chunkerVars, rankerVars, prrsVars, estimatorVars, summarizerVars>>

\* pushCur(true); return chunks.map(s => s.trim()).filter(Boolean)
SplitFinish ==
  /\ spPc = "loop"
  /\ spK = Len(spLines)
  /\ spState' = [chunks |-> TrimAndFilter(PushCur(spState).chunks), cur |-> <<>>]
  /\ spPc' = "done"
  /\ UNCHANGED <<spText, spLines, spMaxChars, spK, spBuffered, spSplitPos>>
  /\ UNCHANGED <<chunkerVars, rankerVars, prrsVars, estimatorVars, summarizerVars>>

SplitterNext ==
  \/ SplitEnter
  \/ SplitIterate
  \/ SplitFinish

SplitterSpec == SplitterInit /\ [][SplitterNext]_vars

\* the offset a boundary of the kind gives as split point in the buffered prefix: the
\* offset of its last occurrence, after the newline it begins with; -1 when absent
BoundaryOffset(cur, kind) ==
  IF LastIndexOf(cur, SplitCandidates[kind]) = -1 THEN -1
  ELSE LastIndexOf(cur, SplitCandidates[kind])
         + (IF SplitCandidates[kind][1] = NL THEN 1 ELSE 0)

\* the kinds of boundary the buffered prefix has beyond offset 10
KindsBeyondMinimum(cur) ==
  {kind \in 1..Len(SplitCandidates) : BoundaryOffset(cur, kind) > 10}

\* the split point by preference of kind: that of the most preferred kind present
\* beyond offset 10, -1 when there is none
PreferredSplit(cur) ==
  IF KindsBeyondMinimum(cur) = {} THEN -1
  ELSE BoundaryOffset(cur, MinOf(KindsBeyondMinimum(cur)))

\* the last iteration found that the next line pushes the buffered prefix over the cap
OverCap ==
  /\ spPc \in {"loop", "done"}
  /\ spK >= 1
  /\ Len(spBuffered) + 1 + Len(spLines[spK]) > spMaxChars

\* C28: when the next line would push the buffered prefix over the cap, the split
\* is made at the last occurrence of the most preferred kind of boundary the prefix
\* has beyond offset 10 (blank line, ';' + newline, '};' + newline, comment line,
\* newline), whatever boundary comes later, and never at an offset <= 10.
C28_SplitByPreference ==
  OverCap =>
    /\ spSplitPos = PreferredSplit(spBuffered)
    /\ spSplitPos = -1 \/ spSplitPos > 10


(***************************************************************************)
(* The traversal of directories with a cycle: a root directory that holds  *)
(* a link to itself, with a model that returns or raises on each call, and *)
(* every step that can be taken eventually taken.                          *)
(***************************************************************************)
LoopName == <<"l","o","o","p">>

\* the listings of the root directory: a link to the root alone, next to a source
\* file, next to a deny-listed directory and a file without source extension, next
\* to an empty file and an empty directory, and a listing without a link
LinkListings ==
  { <<LinkEntry(LoopName)>>,
    <<FileEntry(TsName, CodeText), LinkEntry(LoopName)>>,
    <<DirEntry(NodeModulesName, <<FileEntry(TsName, CodeText)>>),
      FileEntry(EnvName, EnvText), LinkEntry(LoopName)>>,
    <<FileEntry(JsonName, BlankText), DirEntry(LibName, <<>>), LinkEntry(LoopName)>>,
    <<DirEntry(SubName, <<LinkEntry(LoopName)>>)>>,
    <<DirEntry(LibName, <<>>)>> }

LinkInit ==
  /\ fsRoot \in {DirEntry(RootName, l) : l \in LinkListings}
  /\ lenses = <<"architecture">>
  /\ maxDepth \in 0..MaxMaxDepth
  /\ faults = {}
  /\ oracle = FreeOracle
  /\ PrrsReady

LinkSpec == LinkInit /\ [][Next]_vars /\ WF_vars(Next)

\* the number of levels of a node: 1 for a node without children
RECURSIVE Levels(_)
Levels(node) ==
  IF node.children = <<>> THEN 1
  ELSE 1 + MaxOf({Levels(node.children[k]) : k \in 1..Len(node.children)})

\* C30: every traversal terminates, also over a directory structure with a cycle:
\* prrs eventually returns or rejects, because the depth of an rrs call in progress
\* never exceeds maxDepth + 1 and the calls in progress are one per depth, and a
\* node returned by the call at depth d has at most maxDepth + 2 - d levels, the
\* root node at most maxDepth + 2.
C30_Terminates ==
  /\ <>(ppc \in {"done", "rejected"})
  /\ [](/\ Len(stack) <= maxDepth + 2
        /\ \A i \in 1..Len(stack) : stack[i].depth = i - 1
        /\ \A r \in ReturnedNodes : Levels(r.node) <= maxDepth + 2 - r.depth)

\* the root directory holds only a link to itself: with maxDepth 2 the returned
\* tree has the root, the link, the link below the link and a depth-limit leaf
C30_Witness ==
  /\ ppc = "done"
  /\ maxDepth = 2
  /\ fsRoot = DirEntry(RootName, <<LinkEntry(LoopName)>>)
  /\ LET root == summaries["architecture"]
     IN  /\ Levels(root) = 4
         /\ root.children[1].path = <<RootName, LoopName>>
         /\ root.children[1].children[1].path = <<RootName, LoopName, LoopName>>
         /\ root.children[1].children[1].children = <<DepthLimitNode>>

=============================================================================
